---- MODULE Spec2Model ----
(***************************************************************************)
(* A model of the scoring / domain-health / queue-adjustment / indexing /  *)
(* insight-notification loop of zeke-status.                               *)
(*                                                                         *)
(* Conventions                                                             *)
(*   - a Python str is a tuple of one-character strings ("emdash" and      *)
(*     "rarrow" stand for the two non-ASCII characters the labels use);    *)
(*   - a score read from the scores file is an integer number of tenths    *)
(*     (4.5 is 45), an average rounded to two decimals an integer number   *)
(*     of hundredths; averages are compared as exact fractions;            *)
(*   - a score score_entry computes is an integer number of thousandths    *)
(*     (4.5 is 4500);                                                      *)
(*   - a timestamp of the detector's feed is the "HH:MM" of one day, and   *)
(*     hashlib.md5 is a stand-in digest of the same length.                *)
(***************************************************************************)
EXTENDS Integers, Sequences, FiniteSets, TLC

VARIABLES
  scoresFile,   \* feed-quality-scores.jsonl: the parsed lines, in file order
  healthFile,   \* quality-domain-health.json: "domains" (domain -> metrics)
  queueFile,    \* spark-work-queue.jsonl: the JSON array of tasks
  lastRun,      \* the record the last adjuster run appended to the journal
  appends       \* number of batches appended to the scores file so far

weightsVars == <<scoresFile, healthFile, queueFile, lastRun, appends>>

VARIABLES
  scoreEntry,   \* the feed entry handed to score_entry
  scoreOut      \* <<v>> once score_entry returned v (in thousandths), else <<>>

scoreVars == <<scoreEntry, scoreOut>>

VARIABLES
  synthesisFiles,  \* the contents of the three SYNTHESIS_PATHS (<<>>: no file)
  feedFile,        \* learning-feed.jsonl as the indexer reads it: the entries
  thesisFile,      \* thesis-ledger.jsonl: the entries
  today,           \* the day of the indexer's clock
  stateFile,       \* .zeke-rag-embed-state.json
  chroma,          \* the ids each of the three collections holds
  embedRun,        \* what the last indexer run did
  inputsTouched,   \* an input file changed since the last indexer run
  embedSteps       \* runs and edits so far

embedVars ==
  <<synthesisFiles, feedFile, thesisFile, today, stateFile, chroma, embedRun,
    inputsTouched, embedSteps>>

VARIABLES
  insightFeed,   \* learning-feed.jsonl as the scorer reads it: the entries
  clock,         \* the scorer's clock, in minutes
  sentFile,      \* sent-insights.json
  qualityFile,   \* quality-metrics.json (<<>>: no file)
  telegramChat,  \* the messages delivered to the Telegram chat, oldest first
  engineRun,     \* what the last scorer run did
  engineSteps    \* runs, appended entries and clock ticks so far

engineVars ==
  <<insightFeed, clock, sentFile, qualityFile, telegramChat, engineRun,
    engineSteps>>

VARIABLES
  ragStore,   \* the collections the Chroma client holds, each record with
              \* its distance to the query (<<>>: no such collection)
  ragArgs,    \* the arguments of get_context_for_prompt
  ragResult   \* <<r>> once get_context_for_prompt returned r, else <<>>

queryVars == <<ragStore, ragArgs, ragResult>>

VARIABLES
  chunkIn,   \* the text handed to chunk_text
  chunkOut   \* <<chunks>> once chunk_text returned chunks, else <<>>

chunkVars == <<chunkIn, chunkOut>>

VARIABLES
  inFlight   \* queue writers between their read of the queue file and their rewrite of it

writersVars == <<inFlight>>

VARIABLES
  callIn,   \* the function called and its arguments
  callOut   \* <<v>> once the call returned v, <<"raised">> if it raised, else <<>>

callVars == <<callIn, callOut>>

VARIABLES
  boostRuns,   \* adjuster runs since the queue was written
  boostStart   \* the queue before the first of those runs

boostVars == <<boostRuns, boostStart>>

VARIABLES
  winPc,      \* where chunk_text stands: "call", "loop" or "done"
  winStart,   \* the variable start of chunk_text
  winChunks,  \* the list chunks of chunk_text
  winStarts   \* the start of every window made so far

windowVars == <<winPc, winStart, winChunks, winStarts>>

vars == <<weightsVars, scoreVars, embedVars, engineVars, queryVars,
  chunkVars, writersVars, callVars, boostVars, windowVars>>

\* the state of everything one component leaves alone
notWeights == <<scoreVars, embedVars, engineVars, queryVars, chunkVars,
  writersVars, callVars, boostVars, windowVars>>

notScore == <<weightsVars, embedVars, engineVars, queryVars, chunkVars,
  writersVars, callVars, boostVars, windowVars>>

notEmbed == <<weightsVars, scoreVars, engineVars, queryVars, chunkVars,
  writersVars, callVars, boostVars, windowVars>>

notEngine == <<weightsVars, scoreVars, embedVars, queryVars, chunkVars,
  writersVars, callVars, boostVars, windowVars>>

notQuery == <<weightsVars, scoreVars, embedVars, engineVars, chunkVars,
  writersVars, callVars, boostVars, windowVars>>

notChunk == <<weightsVars, scoreVars, embedVars, engineVars, queryVars,
  writersVars, callVars, boostVars, windowVars>>

notWriters == <<weightsVars, scoreVars, embedVars, engineVars, queryVars,
  chunkVars, callVars, boostVars, windowVars>>

notCall == <<weightsVars, scoreVars, embedVars, engineVars, queryVars,
  chunkVars, writersVars, boostVars, windowVars>>

notBoost == <<weightsVars, scoreVars, embedVars, engineVars, queryVars,
  chunkVars, writersVars, callVars, windowVars>>

notWindow == <<weightsVars, scoreVars, embedVars, engineVars, queryVars,
  chunkVars, writersVars, callVars, boostVars>>

\* a component no specification is about stays as it starts
WeightsIdle ==
  /\ scoresFile = <<>>
  /\ healthFile = <<>>
  /\ queueFile = <<>>
  /\ lastRun = [ran |-> FALSE]
  /\ appends = 0

ScoreIdle == scoreEntry = [topic |-> <<>>] /\ scoreOut = <<>>

EmbedIdle ==
  /\ synthesisFiles = <<>>
  /\ feedFile = <<>>
  /\ thesisFile = <<>>
  /\ today = 0
  /\ stateFile = [exists |-> FALSE]
  /\ chroma = [synthesis |-> <<>>, feed |-> <<>>, thesis |-> <<>>]
  /\ embedRun = [ran |-> "none"]
  /\ inputsTouched = FALSE
  /\ embedSteps = [runs |-> 0, edits |-> 0]

EngineIdle ==
  /\ insightFeed = <<>>
  /\ clock = 0
  /\ sentFile = [exists |-> FALSE]
  /\ qualityFile = <<>>
  /\ telegramChat = <<>>
  /\ engineRun = [ran |-> "none"]
  /\ engineSteps = [runs |-> 0, appends |-> 0, ticks |-> 0]

QueryIdle ==
  /\ ragStore = <<>>
  /\ ragArgs = [n |-> 0]
  /\ ragResult = <<>>

ChunkIdle ==
  /\ chunkIn = <<>>
  /\ chunkOut = <<>>

WritersIdle ==
  /\ inFlight = <<>>

CallIdle ==
  /\ callIn = [fn |-> "none"]
  /\ callOut = <<>>

BoostIdle ==
  /\ boostRuns = 0
  /\ boostStart = <<>>

WindowIdle ==
  /\ winPc = "call"
  /\ winStart = 0
  /\ winChunks = <<>>
  /\ winStarts = <<>>

NotWeightsIdle == ScoreIdle /\ EmbedIdle /\ EngineIdle /\ QueryIdle /\
  ChunkIdle /\ WritersIdle /\ CallIdle /\ BoostIdle /\ WindowIdle

NotScoreIdle == WeightsIdle /\ EmbedIdle /\ EngineIdle /\ QueryIdle /\
  ChunkIdle /\ WritersIdle /\ CallIdle /\ BoostIdle /\ WindowIdle

NotEmbedIdle == WeightsIdle /\ ScoreIdle /\ EngineIdle /\ QueryIdle /\
  ChunkIdle /\ WritersIdle /\ CallIdle /\ BoostIdle /\ WindowIdle

NotEngineIdle == WeightsIdle /\ ScoreIdle /\ EmbedIdle /\ QueryIdle /\
  ChunkIdle /\ WritersIdle /\ CallIdle /\ BoostIdle /\ WindowIdle

NotQueryIdle == WeightsIdle /\ ScoreIdle /\ EmbedIdle /\ EngineIdle /\
  ChunkIdle /\ WritersIdle /\ CallIdle /\ BoostIdle /\ WindowIdle

NotChunkIdle == WeightsIdle /\ ScoreIdle /\ EmbedIdle /\ EngineIdle /\
  QueryIdle /\ WritersIdle /\ CallIdle /\ BoostIdle /\ WindowIdle

NotWritersIdle == WeightsIdle /\ ScoreIdle /\ EmbedIdle /\ EngineIdle /\
  QueryIdle /\ ChunkIdle /\ CallIdle /\ BoostIdle /\ WindowIdle

NotCallIdle == WeightsIdle /\ ScoreIdle /\ EmbedIdle /\ EngineIdle /\
  QueryIdle /\ ChunkIdle /\ WritersIdle /\ BoostIdle /\ WindowIdle

NotBoostIdle == WeightsIdle /\ ScoreIdle /\ EmbedIdle /\ EngineIdle /\
  QueryIdle /\ ChunkIdle /\ WritersIdle /\ CallIdle /\ WindowIdle

NotWindowIdle == WeightsIdle /\ ScoreIdle /\ EmbedIdle /\ EngineIdle /\
  QueryIdle /\ ChunkIdle /\ WritersIdle /\ CallIdle /\ BoostIdle

----------------------------------------------------------------------------
(* Strings *)

MinOf(S) == CHOOSE x \in S : \A y \in S : x <= y

Min2(a, b) == IF a <= b THEN a ELSE b

Max2(a, b) == IF a >= b THEN a ELSE b

LowerTable ==
  [A |-> "a", B |-> "b", C |-> "c", D |-> "d", E |-> "e", F |-> "f", G |-> "g",
   H |-> "h", I |-> "i", J |-> "j", K |-> "k", L |-> "l", M |-> "m", N |-> "n",
   O |-> "o", P |-> "p", Q |-> "q", R |-> "r", S |-> "s", T |-> "t", U |-> "u",
   V |-> "v", W |-> "w", X |-> "x", Y |-> "y", Z |-> "z"]

UpperTable ==
  [a |-> "A", b |-> "B", c |-> "C", d |-> "D", e |-> "E", f |-> "F", g |-> "G",
   h |-> "H", i |-> "I", j |-> "J", k |-> "K", l |-> "L", m |-> "M", n |-> "N",
   o |-> "O", p |-> "P", q |-> "Q", r |-> "R", s |-> "S", t |-> "T", u |-> "U",
   v |-> "V", w |-> "W", x |-> "X", y |-> "Y", z |-> "Z"]

LowerChar(c) == IF c \in DOMAIN LowerTable THEN LowerTable[c] ELSE c

UpperChar(c) == IF c \in DOMAIN UpperTable THEN UpperTable[c] ELSE c

\* a function with domain 1..n as a tuple
AsList(f) == SubSeq(f, 1, Len(f))

\* str.lower()
Lower(s) == AsList([i \in 1..Len(s) |-> LowerChar(s[i])])

\* str.upper()
Upper(s) == AsList([i \in 1..Len(s) |-> UpperChar(s[i])])

\* the characters str.strip(), str.split() and the regex class \s take as blanks
Whitespace == {" ", "\t", "\n", "\r", "\f"}

\* str.strip()
Strip(s) ==
  IF s = <<>> THEN s
  ELSE IF s[1] \notin Whitespace /\ s[Len(s)] \notin Whitespace THEN s
  ELSE LET n == Len(s)
           lead == Cardinality({i \in 1..n : \A j \in 1..i : s[j] \in Whitespace})
           trail == Cardinality({i \in 1..n : \A j \in i..n : s[j] \in Whitespace})
       IN  IF lead = n THEN <<>> ELSE SubSeq(s, lead + 1, n - trail)

\* s[:k]
Prefix(s, k) == SubSeq(s, 1, Min2(k, Len(s)))

\* s.startswith(p)
StartsWith(s, p) == Len(p) <= Len(s) /\ SubSeq(s, 1, Len(p)) = p

\* sub in s
Contains(s, sub) ==
  \E i \in 0..(Len(s) - Len(sub)) : SubSeq(s, i + 1, i + Len(sub)) = sub

Digits == <<"0","1","2","3","4","5","6","7","8","9">>

\* str(n) for a natural number n
RECURSIVE DecStr(_)
DecStr(n) ==
  IF n < 10 THEN <<Digits[n + 1]>>
  ELSE DecStr(n \div 10) \o <<Digits[(n % 10) + 1]>>

\* f"{x:.2f}" for x given in hundredths
Fmt2(h) ==
  DecStr(h \div 100) \o <<".", Digits[((h \div 10) % 10) + 1], Digits[(h % 10) + 1]>>

RECURSIVE SumSeq(_)
SumSeq(s) == IF s = <<>> THEN 0 ELSE Head(s) + SumSeq(Tail(s))

\* round(a / b) to the nearest integer, ties to even (a >= 0, b > 0)
RoundDiv(a, b) ==
  LET q == a \div b
      r == a % b
  IN  IF 2 * r < b THEN q
      ELSE IF 2 * r > b THEN q + 1
      ELSE IF q % 2 = 0 THEN q ELSE q + 1

----------------------------------------------------------------------------
(* zeke-quality-weights.py: topic table and thresholds *)


\* "ai-agents"
D_ai_agents ==
  <<"a","i","-","a","g","e","n","t","s">>

\* "camel-finance"
D_camel_finance ==
  <<"c","a","m","e","l","-","f","i","n","a","n","c","e">>

\* "compound-synthesis"
D_compound_synthesis ==
  <<"c","o","m","p","o","u","n","d","-","s","y","n","t","h","e","s","i","s">>

\* "longevity"
D_longevity ==
  <<"l","o","n","g","e","v","i","t","y">>

\* "self-improvement"
D_self_improvement ==
  <<"s","e","l","f","-","i","m","p","r","o","v","e","m","e","n","t">>

\* "treasury-bonds"
D_treasury_bonds ==
  <<"t","r","e","a","s","u","r","y","-","b","o","n","d","s">>

TOPIC_TO_DOMAIN ==
  <<
    \* "treasury bonds and interest rates"
    << <<"t","r","e","a","s","u","r","y"," ","b","o","n","d","s"," ","a","n","d"," ","i","n","t","e","r","e","s","t"," ","r","a","t","e","s">>,
       D_treasury_bonds >>,
    \* "treasury-bonds"
    << <<"t","r","e","a","s","u","r","y","-","b","o","n","d","s">>,
       D_treasury_bonds >>,
    \* "treasurybonds"
    << <<"t","r","e","a","s","u","r","y","b","o","n","d","s">>,
       D_treasury_bonds >>,
    \* "treasury auction calendar"
    << <<"t","r","e","a","s","u","r","y"," ","a","u","c","t","i","o","n"," ","c","a","l","e","n","d","a","r">>,
       D_treasury_bonds >>,
    \* "fedwatch-rate-probabilities"
    << <<"f","e","d","w","a","t","c","h","-","r","a","t","e","-","p","r","o","b","a","b","i","l","i","t","i","e","s">>,
       D_treasury_bonds >>,
    \* "macroalf-commentary"
    << <<"m","a","c","r","o","a","l","f","-","c","o","m","m","e","n","t","a","r","y">>,
       D_treasury_bonds >>,
    \* "longevity research"
    << <<"l","o","n","g","e","v","i","t","y"," ","r","e","s","e","a","r","c","h">>,
       D_longevity >>,
    \* "longevity"
    << <<"l","o","n","g","e","v","i","t","y">>,
       D_longevity >>,
    \* "ai agents and tool calling"
    << <<"a","i"," ","a","g","e","n","t","s"," ","a","n","d"," ","t","o","o","l"," ","c","a","l","l","i","n","g">>,
       D_ai_agents >>,
    \* "ai-agents"
    << <<"a","i","-","a","g","e","n","t","s">>,
       D_ai_agents >>,
    \* "tool-calling"
    << <<"t","o","o","l","-","c","a","l","l","i","n","g">>,
       D_ai_agents >>,
    \* "multi-agent systems"
    << <<"m","u","l","t","i","-","a","g","e","n","t"," ","s","y","s","t","e","m","s">>,
       D_ai_agents >>,
    \* "self-improvement"
    << <<"s","e","l","f","-","i","m","p","r","o","v","e","m","e","n","t">>,
       D_self_improvement >>,
    \* "compound-synthesis"
    << <<"c","o","m","p","o","u","n","d","-","s","y","n","t","h","e","s","i","s">>,
       D_compound_synthesis >>,
    \* "camel-finance-cycle-analysis"
    << <<"c","a","m","e","l","-","f","i","n","a","n","c","e","-","c","y","c","l","e","-","a","n","a","l","y","s","i","s">>,
       D_camel_finance >>,
    \* "camel finance: cycle trading theory"
    << <<"c","a","m","e","l"," ","f","i","n","a","n","c","e",":"," ","c","y","c","l","e"," ","t","r","a","d","i","n","g"," ","t","h","e","o","r","y">>,
       D_camel_finance >>,
    \* "camel finance: hyperwave theory"
    << <<"c","a","m","e","l"," ","f","i","n","a","n","c","e",":"," ","h","y","p","e","r","w","a","v","e"," ","t","h","e","o","r","y">>,
       D_camel_finance >>,
    \* "camel finance: tradingview guide"
    << <<"c","a","m","e","l"," ","f","i","n","a","n","c","e",":"," ","t","r","a","d","i","n","g","v","i","e","w"," ","g","u","i","d","e">>,
       D_camel_finance >>,
    \* "camel finance: key u.s. economic"
    << <<"c","a","m","e","l"," ","f","i","n","a","n","c","e",":"," ","k","e","y"," ","u",".","s","."," ","e","c","o","n","o","m","i","c">>,
       D_camel_finance >>,
    \* "camel finance: understanding m"
    << <<"c","a","m","e","l"," ","f","i","n","a","n","c","e",":"," ","u","n","d","e","r","s","t","a","n","d","i","n","g"," ","m">>,
       D_camel_finance >>,
    \* "camel finance: trendline analy"
    << <<"c","a","m","e","l"," ","f","i","n","a","n","c","e",":"," ","t","r","e","n","d","l","i","n","e"," ","a","n","a","l","y">>,
       D_camel_finance >>,
    \* "camel finance: bitcoin"
    << <<"c","a","m","e","l"," ","f","i","n","a","n","c","e",":"," ","b","i","t","c","o","i","n">>,
       D_camel_finance >>,
    \* "queue-research-xauusd"
    << <<"q","u","e","u","e","-","r","e","s","e","a","r","c","h","-","x","a","u","u","s","d">>,
       D_camel_finance >>,
    \* "queue-analysis-spx"
    << <<"q","u","e","u","e","-","a","n","a","l","y","s","i","s","-","s","p","x">>,
       D_camel_finance >>,
    \* "queue-research-tlt"
    << <<"q","u","e","u","e","-","r","e","s","e","a","r","c","h","-","t","l","t">>,
       D_treasury_bonds >>,
    \* "queue-research-iren"
    << <<"q","u","e","u","e","-","r","e","s","e","a","r","c","h","-","i","r","e","n">>,
       D_ai_agents >>,
    \* "options-flow-gld"
    << <<"o","p","t","i","o","n","s","-","f","l","o","w","-","g","l","d">>,
       D_camel_finance >>,
    \* "options-flow-slv"
    << <<"o","p","t","i","o","n","s","-","f","l","o","w","-","s","l","v">>,
       D_camel_finance >>
  >>

\* "general": the domain of a task no keyword matches
D_general ==
  <<"g","e","n","e","r","a","l">>

STRONG_THRESHOLD == 38

WEAK_THRESHOLD == 30

MIN_SAMPLES == 5

BOOST_AMOUNT == 1

MAX_PRIORITY == 10

----------------------------------------------------------------------------
(* zeke-quality-weights.py: normalize_topic, load_scores, compute_health *)

\* normalize_topic trying the prefix rule before the exact match
normalize_topic_PrefixFirst(raw_topic) ==
  LET t == Strip(Lower(raw_topic))
      n == Len(TOPIC_TO_DOMAIN)
      exact == {i \in 1..n : TOPIC_TO_DOMAIN[i][1] = t}
      pref == {i \in 1..n : /\ StartsWith(t, Prefix(TOPIC_TO_DOMAIN[i][1], 15))
                            /\ Len(TOPIC_TO_DOMAIN[i][1]) > 10}
  IN  IF pref # {} THEN TOPIC_TO_DOMAIN[MinOf(pref)][2]
      ELSE IF exact # {} THEN TOPIC_TO_DOMAIN[MinOf(exact)][2]
      ELSE t

normalize_topic(raw_topic) ==
  LET t == Strip(Lower(raw_topic))
      n == Len(TOPIC_TO_DOMAIN)
      exact == {i \in 1..n : TOPIC_TO_DOMAIN[i][1] = t}
      pref == {i \in 1..n : /\ StartsWith(t, Prefix(TOPIC_TO_DOMAIN[i][1], 15))
                            /\ Len(TOPIC_TO_DOMAIN[i][1]) > 10}
  IN  IF exact # {} THEN TOPIC_TO_DOMAIN[MinOf(exact)][2]
      ELSE IF pref # {} THEN TOPIC_TO_DOMAIN[MinOf(pref)][2]
      ELSE t

\* the "1 <= score <= 5" test of load_scores, on tenths
ValidScore(score) == 10 <= score /\ score <= 50

\* a line of a .jsonl file that json.loads raises on
MalformedLine == [unparseable |-> <<"{","\"","t","o","p","i","c">>]

Malformed(line) == "unparseable" \in DOMAIN line

\* load_scores reading on only to the first line that does not parse
RECURSIVE KeptLines_UntilMalformed(_)
KeptLines_UntilMalformed(file) ==
  IF file = <<>> THEN <<>>
  ELSE IF Malformed(Head(file)) THEN <<>>
  ELSE IF ValidScore(Head(file).score)
         THEN <<[domain |-> normalize_topic(Head(file).topic), score |-> Head(file).score]>>
              \o KeptLines_UntilMalformed(Tail(file))
         ELSE KeptLines_UntilMalformed(Tail(file))

\* load_scores: the lines kept, each with its canonical domain; a line that
\* raises is passed over
RECURSIVE KeptLines(_)
KeptLines(file) ==
  IF file = <<>> THEN <<>>
  ELSE IF Malformed(Head(file)) THEN KeptLines(Tail(file))
  ELSE IF ValidScore(Head(file).score)
         THEN <<[domain |-> normalize_topic(Head(file).topic), score |-> Head(file).score]>>
              \o KeptLines(Tail(file))
         ELSE KeptLines(Tail(file))

RECURSIVE FirstSeen(_, _)
\* the keys of a dict in insertion order: the distinct domains of `kept`
FirstSeen(kept, acc) ==
  IF kept = <<>> THEN acc
  ELSE IF \E i \in 1..Len(acc) : acc[i] = Head(kept).domain
         THEN FirstSeen(Tail(kept), acc)
         ELSE FirstSeen(Tail(kept), Append(acc, Head(kept).domain))

RECURSIVE ScoresOf(_, _)
\* domain_scores[d]: the scores of the kept lines of domain d, in file order
ScoresOf(kept, d) ==
  IF kept = <<>> THEN <<>>
  ELSE IF Head(kept).domain = d
         THEN <<Head(kept).score>> \o ScoresOf(Tail(kept), d)
         ELSE ScoresOf(Tail(kept), d)

\* load_scores: domain -> list of scores, with the dict's key order
load_scores(file) ==
  LET kept == KeptLines(file)
      order == FirstSeen(kept, <<>>)
  IN  [order |-> order,
       scores |-> [d \in {order[i] : i \in 1..Len(order)} |-> ScoresOf(kept, d)]]

\* s[-k:]
LastK(s, k) == SubSeq(s, Max2(1, Len(s) - k + 1), Len(s))

\* a recent window of always five scores
n_recent_Five(scores) == 5

n_recent(scores) == Max2(5, Len(scores) \div 5)

\* trend of one domain: recent_avg against avg +- 0.1, as exact fractions
TrendOf(scores) ==
  LET n == Len(scores)
      recent == LastK(scores, n_recent(scores))
      nr == Len(recent)
      total == SumSeq(scores)
      rsum == SumSeq(recent)
  IN  IF rsum * n > total * nr + n * nr THEN "up"
      ELSE IF rsum * n + n * nr < total * nr THEN "down"
      ELSE "flat"

TierOf(scores) ==
  LET n == Len(scores)
      total == SumSeq(scores)
  IN  IF total >= STRONG_THRESHOLD * n THEN "STRONG"
      ELSE IF total >= WEAK_THRESHOLD * n THEN "OK"
      ELSE "WEAK"

HealthOf(scores) ==
  LET recent == LastK(scores, n_recent(scores))
  IN  [avg |-> RoundDiv(10 * SumSeq(scores), Len(scores)),
       recent_avg |-> RoundDiv(10 * SumSeq(recent), Len(recent)),
       trend |-> TrendOf(scores),
       n |-> Len(scores),
       tier |-> TierOf(scores)]

\* "len(scores) <= MIN_SAMPLES" in place of "<"
Reported_OffByOne(domain_scores) ==
  {d \in DOMAIN domain_scores.scores : ~(Len(domain_scores.scores[d]) <= MIN_SAMPLES)}

\* the domains compute_health reports
Reported(domain_scores) ==
  {d \in DOMAIN domain_scores.scores : ~(Len(domain_scores.scores[d]) < MIN_SAMPLES)}

compute_health(domain_scores) ==
  [d \in Reported(domain_scores) |-> HealthOf(domain_scores.scores[d])]

\* health.items(): the reported domains in the dict's key order
HealthOrder(domain_scores) ==
  SelectSeq(domain_scores.order, LAMBDA d : d \in Reported(domain_scores))

----------------------------------------------------------------------------
(* zeke-quality-weights.py: domain_for_task, queue_task, main *)

KW_rates == {<<"T","L","T">>, <<"T","M","F">>, <<"R","A","T","E","S">>, <<"B","O","N","D">>}

KW_label == {<<"m","a","c","r","o","a","l","f">>, <<"f","e","d","w","a","t","c","h">>, <<"t","r","e","a","s","u","r","y"," ","a","u","c","t","i","o","n">>}

KW_camel ==
  {<<"X","A","U","U","S","D">>, <<"G","L","D">>, <<"X","A","G","U","S","D">>, <<"S","L","V">>, <<"G","D","X">>, <<"S","I","L","J">>,
   <<"S","P","X">>, <<"I","B","I","T">>, <<"B","T","C">>, <<"I","R","E","N">>, <<"B","I","T","F">>}

KW_macro == <<"m","a","c","r","o">>

domain_for_task(task) ==
  LET instrument == Upper(task.instrument)
      label == Lower(task.label)
  IN  IF \E x \in KW_rates : Contains(instrument, x) THEN D_treasury_bonds
      ELSE IF \E x \in KW_label : Contains(label, x) THEN D_treasury_bonds
      ELSE IF \E x \in KW_camel : Contains(instrument, x) THEN D_camel_finance
      ELSE IF Contains(Lower(task.instrument), KW_macro) THEN D_treasury_bonds
      ELSE D_general

\* f"Quality remediation: {domain} avg={h['avg']:.2f} — improve source quality"
RemediationLabel(domain, h) ==
  <<"Q","u","a","l","i","t","y"," ","r","e","m","e","d","i","a","t","i","o","n",":"," ">>
  \o domain \o <<" ","a","v","g","=">> \o Fmt2(h.avg)
  \o <<" ","emdash"," ","i","m","p","r","o","v","e"," ","s","o","u","r","c","e"," ","q","u","a","l","i","t","y">>

\* f"Quality audit: {domain} declining ({h['avg']:.2f}→{h['recent_avg']:.2f})"
AuditLabel(domain, h) ==
  <<"Q","u","a","l","i","t","y"," ","a","u","d","i","t",":"," ">>
  \o domain \o <<" ","d","e","c","l","i","n","i","n","g"," ","(">>
  \o Fmt2(h.avg) \o <<"rarrow">> \o Fmt2(h.recent_avg) \o <<")">>

HasLabel(tasks, label) == \E i \in 1..Len(tasks) : tasks[i].label = label

NewTask(label, priority, instrument, source) ==
  [id |-> "qw", priority |-> priority, instrument |-> instrument,
   label |-> label, source |-> source, status |-> "pending"]

\* queue_task without the label test
queue_task_NoCheck(tasks, label, priority, instrument, source) ==
  Append(tasks, NewTask(label, priority, instrument, source))

\* queue_task keeping one task of a kind for each instrument
queue_task_OnePerInstrument(tasks, label, priority, instrument, source) ==
  IF \E i \in 1..Len(tasks) :
       /\ tasks[i].instrument = instrument
       /\ tasks[i].source = source
       /\ tasks[i].priority = priority
    THEN tasks
    ELSE Append(tasks, NewTask(label, priority, instrument, source))

\* queue_task: the task list afterwards (unchanged when the label is present)
queue_task(tasks, label, priority, instrument, source) ==
  IF HasLabel(tasks, label) THEN tasks
  ELSE Append(tasks, NewTask(label, priority, instrument, source))

\* the boost without the MAX_PRIORITY cap
Boosted_NoCap(task, domain) ==
  IF domain_for_task(task) = domain
    THEN [task EXCEPT !.priority = task.priority + BOOST_AMOUNT]
    ELSE task

\* a boost applied twice
Boosted_Twice(task, domain) ==
  IF domain_for_task(task) = domain
    THEN [task EXCEPT !.priority =
            Min2(task.priority + 2 * BOOST_AMOUNT, MAX_PRIORITY)]
    ELSE task

\* the boost of one task of the `pending` list for a STRONG domain
Boosted(task, domain) ==
  IF domain_for_task(task) = domain
    THEN [task EXCEPT !.priority = Min2(task.priority + BOOST_AMOUNT, MAX_PRIORITY)]
    ELSE task

\* an iteration that queues the audit task of every OK domain
DomainStep_AuditAnyTrend(acc, pending, domain, h) ==
  LET t1 == IF h.tier = "STRONG"
              THEN AsList([i \in 1..Len(acc.tasks) |->
                      IF i \in pending THEN Boosted(acc.tasks[i], domain)
                      ELSE acc.tasks[i]])
              ELSE acc.tasks
      b1 == acc.boosts
            + Cardinality({i \in 1..Len(acc.tasks) : t1[i].priority # acc.tasks[i].priority})
      t2 == IF h.tier = "WEAK"
              THEN queue_task(t1, RemediationLabel(domain, h), 7, Upper(domain), "quality-weights")
              ELSE t1
      t3 == IF h.tier = "OK"
              THEN queue_task(t2, AuditLabel(domain, h), 6, Upper(domain), "quality-weights")
              ELSE t2
  IN  [tasks |-> t3,
       boosts |-> b1,
       remediation_added |-> acc.remediation_added + (Len(t2) - Len(t1)),
       audit_added |-> acc.audit_added + (Len(t3) - Len(t2))]

\* one iteration of the loop "for domain, h in health.items()";
\* acc = [tasks, boosts, remediation_added, audit_added], pending = the
\* indices of the tasks that were pending when the queue was loaded
DomainStep(acc, pending, domain, h) ==
  LET t1 == IF h.tier = "STRONG"
              THEN AsList([i \in 1..Len(acc.tasks) |->
                      IF i \in pending THEN Boosted(acc.tasks[i], domain)
                      ELSE acc.tasks[i]])
              ELSE acc.tasks
      b1 == acc.boosts
            + Cardinality({i \in 1..Len(acc.tasks) : t1[i].priority # acc.tasks[i].priority})
      t2 == IF h.tier = "WEAK"
              THEN queue_task(t1, RemediationLabel(domain, h), 7, Upper(domain), "quality-weights")
              ELSE t1
      t3 == IF h.tier = "OK" /\ h.trend = "down"
              THEN queue_task(t2, AuditLabel(domain, h), 6, Upper(domain), "quality-weights")
              ELSE t2
  IN  [tasks |-> t3,
       boosts |-> b1,
       remediation_added |-> acc.remediation_added + (Len(t2) - Len(t1)),
       audit_added |-> acc.audit_added + (Len(t3) - Len(t2))]

RECURSIVE DomainLoop(_, _, _, _)
DomainLoop(acc, pending, order, health) ==
  IF order = <<>> THEN acc
  ELSE DomainLoop(DomainStep(acc, pending, Head(order), health[Head(order)]),
                  pending, Tail(order), health)

\* a run that adjusts and saves the pending tasks only
AdjustQueue_PendingOnly(tasks, order, health) ==
  DomainLoop([tasks |-> SelectSeq(tasks, LAMBDA t : t.status = "pending"),
              boosts |-> 0, remediation_added |-> 0, audit_added |-> 0],
             {i \in 1..Len(tasks) : tasks[i].status = "pending"},
             order, health)

\* main, steps 4 and 5: the adjusted queue and the counters of the run
AdjustQueue(tasks, order, health) ==
  DomainLoop([tasks |-> tasks, boosts |-> 0, remediation_added |-> 0, audit_added |-> 0],
             {i \in 1..Len(tasks) : tasks[i].status = "pending"},
             order, health)

NoRun == [ran |-> FALSE]

\* main, step 6: the journal record of the run
JournalEntry(health, res) ==
  [ran |-> TRUE,
   domain_health |-> [d \in DOMAIN health |->
       [tier |-> health[d].tier, avg |-> health[d].avg, trend |-> health[d].trend]],
   actions |-> [boosts |-> res.boosts,
                remediation_tasks |-> res.remediation_added,
                audit_tasks |-> res.audit_added]]

\* the queue file when there is none, and when its text is not JSON
NoQueueFile == <<[file |-> "missing"]>>

CorruptQueueFile == <<[file |-> "unparseable"]>>

\* load_queue(): [] when the file is missing or json.loads raises
load_queue(file) ==
  IF file # <<>> /\ "file" \in DOMAIN file[1] THEN <<>> ELSE file

\* a run that merges the computed domains into the snapshot on disk
RunWeights_Merged ==
  \E domain_scores \in {load_scores(scoresFile)} :
    \E health \in {compute_health(domain_scores)} :
      \E res \in {AdjustQueue(load_queue(queueFile), HealthOrder(domain_scores), health)} :
        IF domain_scores.order = <<>>
          THEN UNCHANGED vars
          ELSE /\ healthFile' = health @@ healthFile
               /\ queueFile' = res.tasks
               /\ lastRun' = JournalEntry(health, res)
               /\ UNCHANGED <<scoresFile, appends, notWeights>>

\* one run of zeke-quality-weights.py
AdjusterRun ==
  \E domain_scores \in {load_scores(scoresFile)} :
    \E health \in {compute_health(domain_scores)} :
      \E res \in {AdjustQueue(load_queue(queueFile), HealthOrder(domain_scores), health)} :
        IF domain_scores.order = <<>>
          THEN UNCHANGED weightsVars
          ELSE /\ healthFile' = health
               /\ queueFile' = res.tasks
               /\ lastRun' = JournalEntry(health, res)
               /\ UNCHANGED <<scoresFile, appends>>

\* the run with everything else left alone
RunWeights == AdjusterRun /\ UNCHANGED notWeights

----------------------------------------------------------------------------
(* The adjuster and its inputs as a state machine *)

MaxAppends == 2

MaxLines == 25

\* raw topics of score lines
T_treasury ==
  <<"t","r","e","a","s","u","r","y","-","b","o","n","d","s">>

T_camel ==
  <<"C","a","m","e","l"," ","F","i","n","a","n","c","e",":"," ","C","y","c","l","e"," ","U","p","d","a","t","e">>

T_longevity ==
  <<" ","L","o","n","g","e","v","i","t","y"," ","R","e","s","e","a","r","c","h"," ">>

T_general ==
  <<"g","e","n","e","r","a","l">>

Line(topic, score) == [topic |-> topic, score |-> score]

Repeat(x, k) == [i \in 1..k |-> x]

\* the six treasury-bonds scores 4.0, 4.2, 3.9, 4.1, 4.3, 2.0
ExampleSix == <<40, 42, 39, 41, 43, 20>>

ScoresExample == [i \in 1..6 |-> Line(T_treasury, ExampleSix[i])]

\* ten 4.5 for a camel-finance topic, then four valid longevity lines and
\* one whose score is missing (d.get("score", 0))
ScoresTen ==
  Repeat(Line(T_camel, 45), 10)
  \o <<Line(T_longevity, 20), Line(T_longevity, 20), Line(T_longevity, 0),
       Line(T_longevity, 20), Line(T_longevity, 20)>>

\* thirty 3.8 and one 4.5 for an unmapped topic (a recent window of 31 \div 5),
\* then the six treasury-bonds scores
ScoresThirtyOne ==
  Repeat(Line(T_general, 38), 30) \o <<Line(T_general, 45)>> \o ScoresExample

\* five 2.0 for an unmapped topic (a WEAK domain), then six 4.5 and five 2.5
\* for treasury-bonds (an OK domain trending down)
ScoresWeakAndDeclining ==
  Repeat(Line(T_general, 20), 5) \o Repeat(Line(T_treasury, 45), 6)
  \o Repeat(Line(T_treasury, 25), 5)

AppendTopics == {T_treasury, T_general}

AppendScoreValues == {20, 45}

BatchSizes == {MIN_SAMPLES}

Task(id, priority, instrument, label, source, status) ==
  [id |-> id, priority |-> priority, instrument |-> instrument,
   label |-> label, source |-> source, status |-> status]

QueueMixed ==
  << Task("fin", 6, <<"T","L","T">>,
          <<"T","r","e","a","s","u","r","y"," ","a","u","c","t","i","o","n"," ","d","e","m","a","n","d">>, "financial-ingestion", "pending"),
     Task("fin", 10, <<"G","L","D">>,
          <<"G","L","D"," ","o","p","t","i","o","n","s"," ","p","o","s","i","t","i","o","n","i","n","g">>, "financial-ingestion", "pending"),
     Task("fin", 9, <<"T","L","T">>,
          <<"F","e","d","W","a","t","c","h"," ","r","a","t","e"," ","c","u","t"," ","p","r","o","b","a","b","i","l","i","t","y">>, "financial-ingestion", "done"),
     Task("synthesis", 1, <<>>,
          <<"c","o","m","p","a","r","e"," ","c","y","c","l","e"," ","l","o","w","s">>, "camel-overnight-synthesis", "pending"),
     Task("fin", 5, <<"M","A","C","R","O">>,
          <<"M","a","c","r","o","A","l","f"," ","a","n","a","l","y","s","i","s">>, "financial-ingestion", "pending") >>

\* the scores file and the queue the adjuster starts from
InitFiles ==
  { <<<<>>, <<>>>>, <<ScoresExample, QueueMixed>>, <<ScoresTen, QueueMixed>>,
    <<ScoresThirtyOne, QueueMixed>>, <<ScoresTen, <<>>>>,
    <<ScoresWeakAndDeclining, QueueMixed>> }

\* a scores file started anew, and the snapshot an earlier run wrote from the
\* scores file before it
ScoresAnew == Repeat(Line(T_general, 35), 5)

EarlierSnapshot ==
  compute_health(load_scores(Repeat(Line(T_longevity, 40), 5)
                             \o Repeat(Line(T_treasury, 45), 5)))

\* the scores file and the snapshot of a start with a snapshot on disk
InitSnapshots == { <<ScoresAnew, EarlierSnapshot>>, <<<<>>, EarlierSnapshot>> }

WeightsInit ==
  /\ \/ /\ \E f \in InitFiles : scoresFile = f[1] /\ queueFile = f[2]
        /\ healthFile = <<>>
     \/ /\ \E f \in InitSnapshots : scoresFile = f[1] /\ healthFile = f[2]
        /\ queueFile = QueueMixed
  /\ lastRun = NoRun
  /\ appends = 0
  /\ NotWeightsIdle

\* the scorer appends a batch of lines to feed-quality-scores.jsonl
AppendScores ==
  /\ appends < MaxAppends
  /\ \E topic \in AppendTopics, score \in AppendScoreValues, k \in BatchSizes :
       /\ Len(scoresFile) + k <= MaxLines
       /\ scoresFile' = scoresFile \o Repeat(Line(topic, score), k)
  /\ appends' = appends + 1
  /\ UNCHANGED <<healthFile, queueFile, lastRun, notWeights>>

WeightsNext == AppendScores \/ RunWeights

SpecWeights == WeightsInit /\ [][WeightsNext]_vars
----------------------------------------------------------------------------
(* Properties of the aggregator and the adjuster *)

\* the valid samples of domain d in the scores file, in file order
SamplesOf(file, d) == ScoresOf(KeptLines(file), d)

\* the canonical domains of the valid lines of the scores file
FileDomains(file) ==
  LET kept == KeptLines(file) IN {kept[i].domain : i \in 1..Len(kept)}

RECURSIVE SumRange(_, _, _)
\* s[lo] + ... + s[hi]
SumRange(s, lo, hi) == IF lo > hi THEN 0 ELSE s[lo] + SumRange(s, lo + 1, hi)

\* trend and tier as the design states them, for the score list s (tenths)
C3_Expected(s) ==
  LET n == Len(s)
      w == IF n \div 5 > 5 THEN n \div 5 ELSE 5
      total == SumRange(s, 1, n)
      recent == SumRange(s, n - w + 1, n)
  IN  [trend |-> IF recent * n > (total + n) * w THEN "up"
                 ELSE IF recent * n < (total - n) * w THEN "down"
                 ELSE "flat",
       tier |-> IF total >= 38 * n THEN "STRONG"
                ELSE IF total < 30 * n THEN "WEAK"
                ELSE "OK"]

\* C3: every reported domain gets the trend of its last max(5, n // 5)
\* scores against the overall average (+- 0.1) and the tier of its average
\* (STRONG from 3.8, WEAK below 3.0); ten 4.5 give STRONG and flat, the six
\* scores 4.0 4.2 3.9 4.1 4.3 2.0 give OK and flat.
C3_TrendAndTier ==
  [][(RunWeights /\ KeptLines(scoresFile) # <<>>) =>
       \A d \in DOMAIN healthFile' :
         LET s == SamplesOf(scoresFile, d)
             h == healthFile'[d]
         IN  /\ h.trend = C3_Expected(s).trend
             /\ h.tier = C3_Expected(s).tier
             /\ (s = Repeat(45, 10)) => (h.tier = "STRONG" /\ h.trend = "flat")
             /\ (s = ExampleSix) => (h.tier = "OK" /\ h.trend = "flat")]_vars

\* a run has reported a domain of 31 samples (recent window 6) and the six
\* treasury-bonds scores
C3_Witness ==
  /\ lastRun.ran
  /\ scoresFile = ScoresThirtyOne
  /\ DOMAIN healthFile = {D_general, D_treasury_bonds}
  /\ healthFile[D_general].n = 31
  /\ healthFile[D_general].trend = "flat"
  /\ healthFile[D_treasury_bonds] =
       [avg |-> 375, recent_avg |-> 370, trend |-> "flat", n |-> 6, tier |-> "OK"]

\* C6: the labels of the queue stay pairwise distinct over adjuster runs.
C6_LabelsDistinct ==
  \A i, j \in 1..Len(queueFile) :
    i # j => queueFile[i].label # queueFile[j].label

\* the last run found the remediation label of a WEAK domain already queued
C6_Witness ==
  /\ lastRun.ran
  /\ lastRun.actions.remediation_tasks = 0
  /\ \E d \in DOMAIN healthFile :
       /\ healthFile[d].tier = "WEAK"
       /\ HasLabel(queueFile, RemediationLabel(d, healthFile[d]))

\* task u is task t with, at most, another priority
SameButPriority(t, u) == u = [t EXCEPT !.priority = u.priority]

\* C7: a run keeps every task, in order; only priorities of pending tasks change.
C7_TasksKept ==
  [][RunWeights =>
       /\ Len(queueFile') >= Len(queueFile)
       /\ \A i \in 1..Len(queueFile) :
            /\ SameButPriority(queueFile[i], queueFile'[i])
            /\ queueFile[i].status # "pending" => queueFile'[i] = queueFile[i]]_vars

\* the last run boosted a task and queued one, beside a done treasury-bonds
\* task while treasury-bonds is STRONG
C7_Witness ==
  /\ lastRun.ran
  /\ lastRun.actions.boosts > 0
  /\ lastRun.actions.remediation_tasks > 0
  /\ Len(queueFile) > Len(QueueMixed)
  /\ D_treasury_bonds \in DOMAIN healthFile
  /\ healthFile[D_treasury_bonds].tier = "STRONG"
  /\ queueFile[3] = QueueMixed[3]

\* the task was pending and its domain is STRONG in the snapshot `health`
InStrongDomain(task, health) ==
  /\ task.status = "pending"
  /\ domain_for_task(task) \in DOMAIN health
  /\ health[domain_for_task(task)].tier = "STRONG"

\* C8: a run raises the priority of exactly the pending tasks of STRONG
\* domains, by 1 and to at most 10; priorities in 1..10 stay there; the
\* boosts of the run summary count the tasks whose priority changed.
C8_Boosts ==
  [][(RunWeights /\ KeptLines(scoresFile) # <<>>) =>
       /\ \A i \in 1..Len(queueFile) :
            /\ queueFile'[i].priority =
                 IF InStrongDomain(queueFile[i], healthFile')
                   THEN IF queueFile[i].priority + 1 <= 10
                          THEN queueFile[i].priority + 1 ELSE 10
                   ELSE queueFile[i].priority
            /\ queueFile[i].priority \in 1..10 => queueFile'[i].priority \in 1..10
       /\ lastRun'.actions.boosts =
            Cardinality({i \in 1..Len(queueFile) :
                           queueFile'[i].priority # queueFile[i].priority})]_vars

\* the last run left a pending camel-finance task at 10 while camel-finance
\* is STRONG, and boosted another task
C8_Witness ==
  /\ lastRun.ran
  /\ lastRun.actions.boosts > 0
  /\ Len(queueFile) >= 2
  /\ queueFile[2] = QueueMixed[2]
  /\ InStrongDomain(queueFile[2], healthFile)

----------------------------------------------------------------------------
(* quality-scorer.py: score_entry *)

DEPTH_SIGNALS ==
  <<<<"s","t","u","d","y">>,  \* "study"
    <<"f","o","u","n","d"," ","t","h","a","t">>,  \* "found that"
    <<"r","e","s","e","a","r","c","h"," ","s","h","o","w","s">>,  \* "research shows"
    <<"p","u","b","l","i","s","h","e","d">>,  \* "published"
    <<"p","e","e","r","-","r","e","v","i","e","w","e","d">>,  \* "peer-reviewed"
    <<"d","a","t","a"," ","s","u","g","g","e","s","t","s">>,  \* "data suggests"
    <<"e","v","i","d","e","n","c","e">>,  \* "evidence"
    <<"c","l","i","n","i","c","a","l"," ","t","r","i","a","l">>,  \* "clinical trial"
    <<"m","e","t","a","-","a","n","a","l","y","s","i","s">>,  \* "meta-analysis"
    <<"a","c","c","o","r","d","i","n","g"," ","t","o">>,  \* "according to"
    <<"p","a","p","e","r">>,  \* "paper"
    <<"j","o","u","r","n","a","l">>,  \* "journal"
    <<"s","i","g","n","i","f","i","c","a","n","t">>,  \* "significant"
    <<"c","o","r","r","e","l","a","t","i","o","n">>,  \* "correlation"
    <<"m","e","c","h","a","n","i","s","m">>,  \* "mechanism"
    <<"p","a","t","h","w","a","y">>,  \* "pathway"
    <<"b","r","e","a","k","t","h","r","o","u","g","h">>,  \* "breakthrough"
    <<"n","o","v","e","l">>,  \* "novel"
    <<"f","i","r","s","t"," ","t","i","m","e">>,  \* "first time"
    <<"c","o","n","t","r","a","r","y"," ","t","o">>,  \* "contrary to"
    <<"s","u","r","p","r","i","s","i","n","g","l","y">>,  \* "surprisingly"
    <<"c","h","a","l","l","e","n","g","e","s"," ","t","h","e">>,  \* "challenges the"
    <<"p","a","r","a","d","i","g","m">>  \* "paradigm"
  >>

SHALLOW_SIGNALS ==
  <<<<"i","s"," ","i","m","p","o","r","t","a","n","t">>,  \* "is important"
    <<"p","l","a","y","s"," ","a"," ","r","o","l","e">>,  \* "plays a role"
    <<"m","a","y"," ","h","e","l","p">>,  \* "may help"
    <<"c","o","u","l","d"," ","p","o","t","e","n","t","i","a","l","l","y">>,  \* "could potentially"
    <<"f","u","r","t","h","e","r"," ","r","e","s","e","a","r","c","h"," ","n","e","e","d","e","d">>,  \* "further research needed"
    <<"i","t"," ","i","s"," ","k","n","o","w","n">>,  \* "it is known"
    <<"g","e","n","e","r","a","l","l","y"," ","a","c","c","e","p","t","e","d">>,  \* "generally accepted"
    <<"v","a","r","i","o","u","s"," ","f","a","c","t","o","r","s">>,  \* "various factors"
    <<"m","a","n","y"," ","s","t","u","d","i","e","s">>,  \* "many studies"
    <<"s","o","m","e"," ","r","e","s","e","a","r","c","h","e","r","s">>  \* "some researchers"
  >>

\* the high-priority topics
PRIORITY_TOPICS ==
  <<<<"t","r","e","a","s","u","r","y">>,  \* "treasury"
    <<"t","l","t">>,  \* "tlt"
    <<"b","o","n","d">>,  \* "bond"
    <<"y","i","e","l","d">>,  \* "yield"
    <<"i","n","t","e","r","e","s","t"," ","r","a","t","e">>,  \* "interest rate"
    <<"l","o","n","g","e","v","i","t","y">>,  \* "longevity"
    <<"r","a","p","a","m","y","c","i","n">>  \* "rapamycin"
  >>

\* the substrings that count as a source citation
CITATION_SIGNALS ==
  <<<<"h","t","t","p">>,  \* "http"
    <<"w","w","w",".">>,  \* "www."
    <<".","c","o","m">>,  \* ".com"
    <<".","o","r","g">>,  \* ".org"
    <<".","g","o","v">>  \* ".gov"
  >>

\* entry.get(key, default)
Get(entry, key, default) == IF key \in DOMAIN entry THEN entry[key] ELSE default

\* sum(1 for s in signals if s in text)
Hits(signals, text) ==
  Cardinality({i \in 1..Len(signals) : Contains(text, signals[i])})

\* any(s in text for s in signals)
AnyIn(signals, text) == \E i \in 1..Len(signals) : Contains(text, signals[i])

DigitChars == {"0", "1", "2", "3", "4", "5", "6", "7", "8", "9"}

\* the first position from i on that holds no digit (Len(s) + 1 when none)
DigitRunEnd(s, i) ==
  MinOf({j \in i..(Len(s) + 1) : j = Len(s) + 1 \/ s[j] \notin DigitChars})

IsChar(s, i, c) == i <= Len(s) /\ s[i] = c

IsDigit(s, i) == i <= Len(s) /\ s[i] \in DigitChars

\* \d+\.?\d*% at position i: the position after the match, 0 when none
MatchPercent(s, i) ==
  IF ~IsDigit(s, i) THEN 0
  ELSE LET e1 == DigitRunEnd(s, i)
       IN  IF IsChar(s, e1, "%") THEN e1 + 1
           ELSE IF IsChar(s, e1, ".")
             THEN LET e2 == DigitRunEnd(s, e1 + 1)
                  IN  IF IsChar(s, e2, "%") THEN e2 + 1 ELSE 0
             ELSE 0

\* \$\d+ at position i
MatchDollar(s, i) ==
  IF IsChar(s, i, "$") /\ IsDigit(s, i + 1) THEN DigitRunEnd(s, i + 1) ELSE 0

\* \d{4}(?:\s|$) at position i
MatchYear(s, i) ==
  IF \A k \in 0..3 : IsDigit(s, i + k)
    THEN IF i + 4 > Len(s) THEN i + 4
         ELSE IF s[i + 4] \in Whitespace THEN i + 5
         ELSE 0
    ELSE 0

\* the alternatives of the pattern are tried in order at each position
MatchEnd(s, i) ==
  IF MatchPercent(s, i) > 0 THEN MatchPercent(s, i)
  ELSE IF MatchDollar(s, i) > 0 THEN MatchDollar(s, i)
  ELSE MatchYear(s, i)

\* len(re.findall(pattern, s)) scanning from position i: the scan takes the
\* leftmost match and resumes after it, so matches do not overlap
RECURSIVE CountMatches(_, _)
CountMatches(s, i) ==
  LET starts == {j \in i..Len(s) : MatchEnd(s, j) > 0}
  IN  IF starts = {} THEN 0
      ELSE 1 + CountMatches(s, MatchEnd(s, MinOf(starts)))

\* len(s.split())
WordCount(s) ==
  Cardinality({i \in 1..Len(s) :
                 /\ s[i] \notin Whitespace
                 /\ (i = 1 \/ s[i - 1] \in Whitespace)})

\* a length adjustment that rewards every count above 40 up to 200
LengthBonus_UpTo200(words) ==
  IF words < 20 THEN -500
  ELSE IF words > 40 /\ words <= 200 THEN 300
  ELSE IF words > 200 THEN -300
  ELSE 0

\* the length adjustment, in thousandths
LengthBonus(words) ==
  IF words < 20 THEN -500
  ELSE IF words > 40 /\ words < 120 THEN 300
  ELSE IF words > 200 THEN -300
  ELSE 0

\* the finding text score_entry reads: finding, else insight, else content
FindingOf(entry) == Get(entry, "finding", Get(entry, "insight", Get(entry, "content", <<>>)))

\* any(p in topic for p in PRIORITY_TOPICS)
IsPriority(topic) == AnyIn(PRIORITY_TOPICS, Lower(topic))

\* the sum score_entry accumulates, in thousandths; err is the error the
\* binary floating-point additions leave on the exact decimal sum
ScoreSum(entry, err) ==
  LET finding == FindingOf(entry)
      fl == Lower(finding)
      depth_hits == Hits(DEPTH_SIGNALS, fl)
      shallow_hits == Hits(SHALLOW_SIGNALS, fl)
      numbers == CountMatches(finding, 1)
      words == WordCount(finding)
  IN  2500
      + Min2(depth_hits * 300, 1200)
      - Min2(shallow_hits * 300, 1000)
      + Min2(numbers * 200, 800)
      + LengthBonus(words)
      + (IF AnyIn(CITATION_SIGNALS, fl) THEN 300 ELSE 0)
      + (IF IsPriority(Get(entry, "topic", <<>>)) THEN 300 ELSE 0)
      + err

\* round(score, 1), in thousandths
Round1(x) == RoundDiv(x, 100) * 100

Clamp_None(x) == x

\* max(1.0, min(5.0, x))
Clamp(x) == Max2(1000, Min2(5000, x))

score_float(entry, err) == Clamp(Round1(ScoreSum(entry, err)))

\* score_entry: 4.5 is 4500
score_entry(entry) == score_float(entry, 0)

----------------------------------------------------------------------------
(* score_entry applied to feed entries *)

MaxDepthHits == 5

MaxShallowHits == 4

MaxNumberHits == 5

\* tokens the specificity pattern matches once each
NumberTokens ==
  << <<"5","%">>,          \* "5%"
     <<"$","1","0">>,      \* "$10"
     <<"2","0","2","4">>,  \* "2024"
     <<"3",".","5","%">>,  \* "3.5%"
     <<"1","9","9","9">>,  \* "1999"
     <<"7","%">>,          \* "7%"
     <<"$","2","5","0">>   \* "$250"
  >>

CiteToken == <<"h","t","t","p",":","/","/","x">>  \* "http://x"

\* " ".join(parts)
RECURSIVE JoinWords(_)
JoinWords(parts) ==
  IF parts = <<>> THEN <<>>
  ELSE IF Len(parts) = 1 THEN parts[1]
  ELSE LET h == Len(parts) \div 2
       IN  JoinWords(SubSeq(parts, 1, h)) \o <<" ">>
           \o JoinWords(SubSeq(parts, h + 1, Len(parts)))

Take(s, k) == SubSeq(s, 1, Min2(k, Len(s)))

\* a finding with the first d depth signals, the first s shallow signals,
\* n number tokens, w filler words and, when c, a link
FindingText(d, s, n, w, c) ==
  JoinWords(Take(DEPTH_SIGNALS, d) \o Take(SHALLOW_SIGNALS, s)
            \o Take(NumberTokens, n) \o AsList(Repeat(<<"x">>, w))
            \o (IF c THEN <<CiteToken>> ELSE <<>>))

Entry(topic, finding) == [topic |-> topic, finding |-> finding]

\* the word counts around the thresholds of the length adjustment
PadWords == {0, 19, 20, 40, 41, 119, 120, 200, 201}

DeepEntries ==
  {Entry(topic, FindingText(d, 0, n, 30, c)) :
     topic \in {T_treasury, T_general}, d \in 0..MaxDepthHits,
     n \in 0..MaxNumberHits, c \in BOOLEAN}

ShallowEntries ==
  {Entry(topic, FindingText(0, s, 0, w, FALSE)) :
     topic \in {T_longevity, T_general}, s \in 0..MaxShallowHits, w \in PadWords}

MixedEntries ==
  {Entry(T_camel, FindingText(d, s, n, 0, FALSE)) :
     d \in {1, MaxDepthHits}, s \in {1, MaxShallowHits}, n \in {0, MaxNumberHits}}

SampleStudy ==
  <<"A"," ","n","e","w"," ","S","t","u","d","y"," ","f","o","u","n","d"," ","t","h","a","t"," ","r","a","p","a","m","y","c","i","n"," ","e","x","t","e","n","d","e","d"," ","l","i","f","e","s","p","a","n"," ","b","y"," ","1","2",".","5","%"," ","i","n"," ","2","0","1","9">>  \* "A new Study found that rapamycin extended lifespan by 12.5% in 2019"

SampleShallow ==
  <<"T","h","e"," ","m","a","r","k","e","t"," ","i","s"," ","i","m","p","o","r","t","a","n","t"," ","a","n","d"," ","m","a","y"," ","h","e","l","p">>  \* "The market is important and may help"

SampleNumbers ==
  <<"Y","i","e","l","d"," ","f","e","l","l"," ","1",".","2",".","3","%"," ","t","o"," ","1","2","3","4","5"," ","t","h","e","n"," ","$","5",".","5","0"," ","b","y"," ","2","0","2","4">>  \* "Yield fell 1.2.3% to 12345 then $5.50 by 2024"

\* entries with other shapes: no topic, the text under "insight" or
\* "content", no text at all
SampleEntries ==
  { Entry(T_longevity, SampleStudy),
    Entry(T_general, SampleShallow),
    Entry(T_treasury, SampleNumbers),
    [finding |-> SampleStudy],
    [topic |-> T_general, insight |-> SampleStudy],
    [topic |-> T_general, content |-> SampleNumbers, insight |-> SampleShallow],
    [topic |-> T_treasury] }

ScoreEntries == DeepEntries \cup ShallowEntries \cup MixedEntries \cup SampleEntries

\* what the binary additions can leave on the decimal sum: far less than
\* half a tenth, here at most one thousandth either way
FloatError == {-1, 0, 1}

ScoreInit ==
  /\ scoreEntry \in ScoreEntries
  /\ scoreOut = <<>>
  /\ NotScoreIdle

\* score_entry(scoreEntry)
ScoreOne ==
  /\ scoreOut = <<>>
  /\ \E err \in FloatError : scoreOut' = <<score_float(scoreEntry, err)>>
  /\ UNCHANGED <<scoreEntry, notScore>>

ScoreNext == ScoreOne

SpecScore == ScoreInit /\ [][ScoreNext]_vars

----------------------------------------------------------------------------
(* Properties of score_entry *)

\* C1: for every feed entry, score_entry returns a value v with
\* 1.0 <= v <= 5.0 that is a multiple of 0.1 (one decimal digit)
C1_ScoreInRange ==
  scoreOut # <<>> =>
    /\ 1000 <= scoreOut[1]
    /\ scoreOut[1] <= 5000
    /\ scoreOut[1] % 100 = 0

\* an entry whose accumulated sum exceeds 5.0 has been scored
C1_Witness ==
  /\ scoreOut = <<5000>>
  /\ ScoreSum(scoreEntry, 0) > 5000

----------------------------------------------------------------------------
(* zeke-rag-embed.py: content_hash, chunk_text *)

\* s[a:b] with Python's reading of negative and oversized indices
Slice(s, a, b) ==
  LET n == Len(s)
      lo == IF a < 0 THEN Max2(a + n, 0) ELSE Min2(a, n)
      hi == IF b < 0 THEN Max2(b + n, 0) ELSE Min2(b, n)
  IN  SubSeq(s, lo + 1, hi)

\* s.rfind(sub): the 0-based index of the last occurrence, -1 when none
RFind(s, sub) ==
  LET at == {i \in 0..(Len(s) - Len(sub)) : SubSeq(s, i + 1, i + Len(sub)) = sub}
  IN  IF at = {} THEN -1 ELSE CHOOSE i \in at : \A j \in at : j <= i

Alphabet ==
  <<"a","b","c","d","e","f","g","h","i","j","k","l","m","n","o","p","q","r","s",
    "t","u","v","w","x","y","z","A","B","C","D","E","F","G","H","I","J","K","L",
    "M","N","O","P","Q","R","S","T","U","V","W","X","Y","Z","0","1","2","3","4",
    "5","6","7","8","9"," ",".",",",":",";","|","%","$","-","_","/","#","(",")",
    "'","!","?","+","=","\n","\t">>

\* a number for a character
CharCode(c) ==
  IF \E i \in 1..Len(Alphabet) : Alphabet[i] = c
    THEN CHOOSE i \in 1..Len(Alphabet) : Alphabet[i] = c
    ELSE 0

HashModulus == 65536

\* one 16-bit lane of the digest: a position-weighted sum of the characters
RECURSIVE Lane(_, _, _, _)
Lane(s, lo, hi, w) ==
  IF lo > hi THEN 0
  ELSE IF lo = hi THEN ((CharCode(s[lo]) + 1) * (((lo * w) % 251) + 1)) % HashModulus
  ELSE LET mid == (lo + hi) \div 2
       IN  (Lane(s, lo, mid, w) + Lane(s, mid + 1, hi, w)) % HashModulus

HexDigits == <<"0","1","2","3","4","5","6","7","8","9","a","b","c","d","e","f">>

\* four hexadecimal digits of n < 65536
Hex4(n) ==
  <<HexDigits[(n \div 4096) + 1], HexDigits[((n \div 256) % 16) + 1],
    HexDigits[((n \div 16) % 16) + 1], HexDigits[(n % 16) + 1]>>

\* hashlib.md5(text.encode()).hexdigest().  MD5 itself is not reproduced: a
\* digest of eight 16-bit lanes stands for it, like MD5 a fixed function of
\* the text, 32 hexadecimal digits long, under which two texts can collide.
md5_hexdigest(text) ==
  Hex4((Lane(text, 1, Len(text), 1) + Len(text)) % HashModulus)
  \o Hex4(Lane(text, 1, Len(text), 7)) \o Hex4(Lane(text, 1, Len(text), 13))
  \o Hex4(Lane(text, 1, Len(text), 17)) \o Hex4(Lane(text, 1, Len(text), 19))
  \o Hex4(Lane(text, 1, Len(text), 23)) \o Hex4(Lane(text, 1, Len(text), 29))
  \o Hex4(Lane(text, 1, Len(text), 31))

\* hashlib.md5(text.encode()).hexdigest()[:12]
md5_12(text) == Prefix(md5_hexdigest(text), 12)

\* the body of the while loop of chunk_text, from `start` on
RECURSIVE ChunkLoop(_, _, _, _, _)
ChunkLoop(text, chunk_size, overlap, start, chunks) ==
  IF ~(start < Len(text)) THEN chunks
  ELSE LET end0 == start + chunk_size
           chunk0 == Slice(text, start, end0)
           last_period == RFind(chunk0, <<".", " ">>)
           cut == end0 < Len(text) /\ 10 * last_period > 6 * chunk_size
           chunk == IF cut THEN Slice(chunk0, 0, last_period + 1) ELSE chunk0
           end == IF cut THEN start + last_period + 1 ELSE end0
       IN  ChunkLoop(text, chunk_size, overlap, end - overlap,
                     Append(chunks, Strip(chunk)))

\* [c for c in chunks if len(c) > 50]
RECURSIVE LongerThan(_, _)
LongerThan(chunks, k) ==
  IF chunks = <<>> THEN <<>>
  ELSE IF Len(Head(chunks)) > k THEN <<Head(chunks)>> \o LongerThan(Tail(chunks), k)
  ELSE LongerThan(Tail(chunks), k)

chunk_text(text, chunk_size, overlap) ==
  IF Len(text) <= chunk_size THEN <<text>>
  ELSE LongerThan(ChunkLoop(text, chunk_size, overlap, 0, <<>>), 50)

----------------------------------------------------------------------------
(* The indexer's inputs: synthesis files, feed entries, ledger entries *)

Sentence ==
  <<"G","o","l","d"," ","h","e","l","d"," ","i","t","s"," ","c","y","c","l","e"," ","l","o","w"," ","a","n","d"," ","b","o","n","d","s"," ","k","e","p","t"," ","t","h","e"," ","b","i","d","."," ">>  \* "Gold held its cycle low and bonds kept the bid. "

Sentence2 ==
  <<"S","i","l","v","e","r"," ","l","a","g","g","e","d"," ","g","o","l","d"," ","a","g","a","i","n"," ","a","s"," ","r","e","a","l"," ","y","i","e","l","d","s"," ","r","o","s","e","."," ">>  \* "Silver lagged gold again as real yields rose. "

SynthShort ==
  <<"G","o","l","d"," ","s","t","e","a","d","y",".">>  \* "Gold steady."

FindTreasury ==
  <<"T","r","e","a","s","u","r","y"," ","a","u","c","t","i","o","n"," ","d","e","m","a","n","d"," ","w","a","s"," ","w","e","a","k"," ","a","n","d"," ","t","h","e"," ","l","o","n","g"," ","b","o","n","d"," ","s","o","l","d"," ","o","f","f"," ","h","a","r","d",".">>  \* "Treasury auction demand was weak and the long bond sold off hard."

FindGold ==
  <<"G","o","l","d"," ","b","r","o","k","e"," ","o","u","t"," ","a","b","o","v","e"," ","r","e","s","i","s","t","a","n","c","e"," ","w","h","i","l","e"," ","m","i","n","e","r","s"," ","l","a","g","g","e","d"," ","t","h","e"," ","m","e","t","a","l"," ","b","a","d","l","y",".">>  \* "Gold broke out above resistance while miners lagged the metal badly."

FindPlain ==
  <<"S","l","e","e","p"," ","d","u","r","a","t","i","o","n"," ","s","h","o","w","s"," ","a"," ","l","i","n","k"," ","w","i","t","h"," ","l","o","n","g","e","r"," ","h","e","a","l","t","h","s","p","a","n"," ","i","n"," ","o","l","d","e","r"," ","a","d","u","l","t","s",".">>  \* "Sleep duration shows a link with longer healthspan in older adults."

FindShort ==
  <<"T","L","T"," ","b","i","d",".">>  \* "TLT bid."

TopicScience ==
  <<"s","c","i","e","n","c","e">>  \* "science"

TopicSleep ==
  <<"s","l","e","e","p">>  \* "sleep"

TopicTLT ==
  <<"T","L","T">>  \* "TLT"

V_title ==
  <<"G","o","l","d"," ","c","y","c","l","e"," ","l","o","w"," ","i","s"," ","i","n">>  \* "Gold cycle low is in"

V_thesis ==
  <<"D","a","i","l","y"," ","c","y","c","l","e"," ","l","o","w"," ","p","r","i","n","t","e","d">>  \* "Daily cycle low printed"

V_conviction ==
  <<"h","i","g","h">>  \* "high"

V_instrument ==
  <<"G","L","D">>  \* "GLD"

V_bias ==
  <<"l","o","n","g">>  \* "long"

V_short ==
  <<"Q">>  \* "Q"

V_date ==
  <<"2","0","2","5","-","0","1","-","0","5">>  \* "2025-01-05"

\* s repeated k times
RECURSIVE Times(_, _)
Times(s, k) == IF k = 0 THEN <<>> ELSE s \o Times(s, k - 1)

\* a synthesis file longer than one chunk
SynthLong == Times(Sentence, 24) \o Strip(Sentence)

SynthMedium == Times(Sentence, 3)

SynthEdited == Times(Sentence2, 3)

SynthTexts == {SynthLong, SynthMedium, SynthEdited, SynthShort}

File(text) == [exists |-> TRUE, text |-> text]

NoFile == [exists |-> FALSE]

\* a parsed timestamp: its day, and whether it carries a UTC offset
Stamp(day, aware) == [day |-> day, aware |-> aware]

FeedRecent ==
  [topic |-> T_treasury, finding |-> FindTreasury, timestamp |-> Stamp(95, TRUE)]

\* financial by its text only, 40 days old on day 100
FeedOld ==
  [topic |-> TopicScience, finding |-> FindGold, timestamp |-> Stamp(60, TRUE)]

\* 95 days old on day 100
FeedAncient ==
  [topic |-> T_camel, insight |-> FindGold \o <<" ">>, timestamp |-> Stamp(5, TRUE)]

FeedPlain ==
  [topic |-> TopicSleep, finding |-> FindPlain, timestamp |-> Stamp(99, TRUE)]

FeedShort ==
  [topic |-> TopicTLT, finding |-> FindShort, timestamp |-> Stamp(99, TRUE)]

\* an old entry whose timestamp has no offset, and one without timestamp
FeedNaive ==
  [topic |-> TopicTLT, finding |-> <<>>, insight |-> FindTreasury \o FindShort,
   timestamp |-> Stamp(1, FALSE)]

FeedUnstamped == [topic |-> TopicTLT, finding |-> FindGold \o FindShort]

\* the text of FeedRecent under another topic
FeedTwin ==
  [topic |-> TopicTLT, finding |-> FindTreasury, timestamp |-> Stamp(99, TRUE)]

ThesisFull ==
  [video_title |-> V_title, thesis |-> V_thesis, conviction |-> V_conviction,
   instrument |-> V_instrument, bias |-> V_bias]

\* the same text: the date is not part of it
ThesisTwin ==
  [video_title |-> V_title, thesis |-> V_thesis, conviction |-> V_conviction,
   instrument |-> V_instrument, bias |-> V_bias, date |-> V_date]

ThesisThin == [video_title |-> V_short, thesis |-> <<>>]

ThesisOther ==
  [video_title |-> V_title, cycle_position |-> V_thesis, key_levels |-> V_conviction]

----------------------------------------------------------------------------
(* zeke-rag-embed.py: embed_synthesis, embed_feed, embed_thesis, main *)

FINANCIAL_TOPICS ==
  { <<"c","a","m","e","l","-","f","i","n","a","n","c","e">>,  \* "camel-finance"
    <<"c","a","m","e","l"," ","f","i","n","a","n","c","e">>,  \* "camel finance"
    <<"t","r","e","a","s","u","r","y","-","b","o","n","d","s">>,  \* "treasury-bonds"
    <<"t","r","e","a","s","u","r","y"," ","b","o","n","d","s">>,  \* "treasury bonds"
    <<"g","o","l","d">>,  \* "gold"
    <<"s","i","l","v","e","r">>,  \* "silver"
    <<"g","l","d">>,  \* "gld"
    <<"s","l","v">>,  \* "slv"
    <<"x","a","u","u","s","d">>,  \* "xauusd"
    <<"b","i","t","c","o","i","n">>,  \* "bitcoin"
    <<"b","t","c">>,  \* "btc"
    <<"i","b","i","t">>,  \* "ibit"
    <<"i","r","e","n">>,  \* "iren"
    <<"t","l","t">>,  \* "tlt"
    <<"g","d","x">>,  \* "gdx"
    <<"s","i","l","j">>,  \* "silj"
    <<"s","p","x">>,  \* "spx"
    <<"f","e","d","w","a","t","c","h">>,  \* "fedwatch"
    <<"f","e","d">>,  \* "fed"
    <<"r","a","t","e">>,  \* "rate"
    <<"c","y","c","l","e">>,  \* "cycle"
    <<"o","p","t","i","o","n","s">>,  \* "options"
    <<"p","o","s","i","t","i","o","n">>,  \* "position"
    <<"t","r","a","d","e">>,  \* "trade"
    <<"m","a","r","k","e","t">> }  \* "market"

S_daily == <<"d","a","i","l","y","-","s","y","n","t","h","e","s","i","s">>  \* "daily-synthesis"

S_camel == <<"c","a","m","e","l","-","s","y","n","t","h","e","s","i","s","-","l","a","t","e","s","t">>  \* "camel-synthesis-latest"

S_cross == <<"c","r","o","s","s","-","d","o","m","a","i","n","-","s","y","n","t","h","e","s","i","s">>  \* "cross-domain-synthesis"

P_synthesis == <<"s","y","n","t","h","e","s","i","s","_">>  \* "synthesis_"

P_feed == <<"f","e","e","d","_">>  \* "feed_"

P_thesis == <<"t","h","e","s","i","s","_">>  \* "thesis_"

L_video == <<"V","i","d","e","o",":"," ">>  \* "Video: "

L_thesis == <<"T","h","e","s","i","s",":"," ">>  \* "Thesis: "

L_conviction == <<"C","o","n","v","i","c","t","i","o","n",":"," ">>  \* "Conviction: "

L_instrument == <<"I","n","s","t","r","u","m","e","n","t",":"," ">>  \* "Instrument: "

L_bias == <<"B","i","a","s",":"," ">>  \* "Bias: "

L_key_levels == <<"K","e","y"," ","l","e","v","e","l","s",":"," ">>  \* "Key levels: "

L_cycle == <<"C","y","c","l","e"," ","p","o","s","i","t","i","o","n",":"," ">>  \* "Cycle position: "

L_sep == <<" ","|"," ">>  \* " | "

SYNTHESIS_PATHS == <<S_daily, S_camel, S_cross>>

\* a or b, on strings
OrElse(a, b) == IF a # <<>> THEN a ELSE b

\* the text embed_feed embeds for an entry
FeedText(e) == Strip(OrElse(Get(e, "finding", <<>>), Get(e, "insight", <<>>)))

ThesisPart(e, key, label) ==
  IF Get(e, key, <<>>) # <<>> THEN <<label \o e[key]>> ELSE <<>>

\* sep.join(parts)
RECURSIVE JoinWith(_, _)
JoinWith(parts, sep) ==
  IF parts = <<>> THEN <<>>
  ELSE IF Len(parts) = 1 THEN parts[1]
  ELSE parts[1] \o sep \o JoinWith(Tail(parts), sep)

\* the text embed_thesis embeds for a ledger entry
ThesisText(e) ==
  JoinWith(ThesisPart(e, "video_title", L_video)
           \o ThesisPart(e, "thesis", L_thesis)
           \o ThesisPart(e, "conviction", L_conviction)
           \o ThesisPart(e, "instrument", L_instrument)
           \o ThesisPart(e, "bias", L_bias)
           \o ThesisPart(e, "key_levels", L_key_levels)
           \o ThesisPart(e, "cycle_position", L_cycle), L_sep)

FeedUniverse ==
  {FeedRecent, FeedOld, FeedAncient, FeedPlain, FeedShort, FeedNaive,
   FeedUnstamped, FeedTwin}

ThesisUniverse == {ThesisFull, ThesisTwin, ThesisThin, ThesisOther}

\* the digests and chunkings of the texts above, computed once
HashMemo ==
  {<<t, md5_12(t)>> :
     t \in {Strip(x) : x \in SynthTexts} \cup {FeedText(e) : e \in FeedUniverse}
           \cup {ThesisText(e) : e \in ThesisUniverse}}

ChunkMemo == {<<Strip(x), chunk_text(Strip(x), 1000, 150)>> : x \in SynthTexts}

content_hash(text) ==
  LET known == {p \in HashMemo : p[1] = text}
  IN  IF known = {} THEN md5_12(text) ELSE (CHOOSE p \in known : TRUE)[2]

\* chunk_text(text, chunk_size=1000, overlap=150)
SynthesisChunks(text) ==
  LET known == {p \in ChunkMemo : p[1] = text}
  IN  IF known = {} THEN chunk_text(text, 1000, 150)
      ELSE (CHOOSE p \in known : TRUE)[2]

FinancialTest(entry) ==
  LET topic == Lower(OrElse(Get(entry, "topic", <<>>), <<>>))
      finding == Lower(OrElse(Get(entry, "finding", <<>>), Get(entry, "insight", <<>>)))
  IN  \E kw \in FINANCIAL_TOPICS :
        Contains(topic, kw) \/ Contains(Prefix(finding, 200), kw)

FinancialMemo == {e \in FeedUniverse : FinancialTest(e)}

is_financial_topic(entry) ==
  IF entry \in FeedUniverse THEN entry \in FinancialMemo ELSE FinancialTest(entry)

\* load_state(): the state dict, the default one when the file cannot be read
load_state ==
  IF stateFile.exists /\ "embedded_hashes" \in DOMAIN stateFile
    THEN [embedded_hashes |-> stateFile.embedded_hashes,
          total_embedded |-> stateFile.total_embedded]
    ELSE [embedded_hashes |-> {}, total_embedded |-> 0]

\* save_state(state)
save_state(state) ==
  [exists |-> TRUE, embedded_hashes |-> state.embedded_hashes,
   total_embedded |-> state.total_embedded, last_run |-> today]

\* set(state.get("embedded_hashes", []))
InitialHashes_Empty(state) == {}

InitialHashes(state) == state.embedded_hashes

\* `h in embedded_hashes and not force`
AlreadyEmbedded_Never(h, embedded_hashes, force) == FALSE

AlreadyEmbedded(h, embedded_hashes, force) == h \in embedded_hashes /\ ~force

\* what the next embedding call and its upsert do: "ok", "none" (embed_text
\* returns None), "raise" (the upsert raises) or "killed" (the process died
\* at this call or an earlier one); calls counts the calls made
Outcome(acc) ==
  IF \E j \in DOMAIN acc.oracle : j <= acc.calls + 1 /\ acc.oracle[j] = "killed"
    THEN "killed"
  ELSE IF (acc.calls + 1) \in DOMAIN acc.oracle THEN acc.oracle[acc.calls + 1]
  ELSE "ok"

\* a collection that adds a record under a fresh id at every call
Upsert_Add(col, id, meta) ==
  ((id \o <<"#">> \o DecStr(Cardinality(DOMAIN col))) :> meta) @@ col

\* col.upsert(ids=[id], ..., metadatas=[meta])
Upsert(col, id, meta) == (id :> meta) @@ col

\* the accumulator of one embed_* call
Start(col, state, oracle, calls) ==
  [col |-> col, hashes |-> InitialHashes(state), count |-> 0, calls |-> calls,
   oracle |-> oracle, embedded |-> {}, failed |-> 0, units |-> 0, log |-> <<>>]

\* the entry of the run's log for a call made for unit number `unit`
Called(unit, id, ok) == [unit |-> unit, id |-> id, ok |-> ok]

\* F applied to the value of x, which is computed once
Bind(x, F(_)) == CHOOSE r \in {F(v) : v \in {x}} : TRUE

\* a unit whose call failed is tried a second time
EmbedUnit_Retried(acc, id, meta, h) ==
  Bind(acc, LAMBDA a :
    IF Outcome(a) = "ok"
      THEN [a EXCEPT !.calls = @ + 1, !.col = Upsert(@, id, meta),
                     !.count = @ + 1, !.embedded = @ \cup {h},
                     !.units = @ + 1,
                     !.log = Append(@, Called(a.units + 1, id, TRUE))]
      ELSE [a EXCEPT !.calls = @ + 2, !.col = Upsert(@, id, meta),
                     !.count = @ + 1, !.embedded = @ \cup {h},
                     !.failed = @ + 1, !.units = @ + 1,
                     !.log = @ \o <<Called(a.units + 1, id, FALSE),
                                    Called(a.units + 1, id, TRUE)>>])

\* one embedding call and upsert, for the next unit of the loop
EmbedUnit(acc, id, meta, h) ==
  Bind(acc, LAMBDA a :
    IF Outcome(a) = "ok"
      THEN [a EXCEPT !.calls = @ + 1, !.col = Upsert(@, id, meta),
                     !.count = @ + 1, !.embedded = @ \cup {h},
                     !.units = @ + 1,
                     !.log = Append(@, Called(a.units + 1, id, TRUE))]
      ELSE [a EXCEPT !.calls = @ + 1, !.failed = @ + 1, !.units = @ + 1,
                     !.log = Append(@, Called(a.units + 1, id, FALSE))])

\* the chunk loop of embed_synthesis, from chunk i on
RECURSIVE SynthesisChunkLoop(_, _, _, _, _)
SynthesisChunkLoop(acc, stem, h, chunks, i) ==
  IF i >= Len(chunks) THEN acc
  ELSE SynthesisChunkLoop(
         EmbedUnit(acc, P_synthesis \o stem \o <<"_">> \o h \o <<"_">> \o DecStr(i),
                   [source |-> stem, chunk |-> i, total_chunks |-> Len(chunks),
                    hash |-> h, embedded_at |-> today, type |-> "synthesis"], h),
         stem, h, chunks, i + 1)

\* the path loop of embed_synthesis, from path k on
RECURSIVE SynthesisLoop(_, _, _)
SynthesisLoop(acc, force, k) ==
  IF k > Len(SYNTHESIS_PATHS) THEN acc
  ELSE IF ~synthesisFiles[k].exists THEN SynthesisLoop(acc, force, k + 1)
  ELSE Bind(acc, LAMBDA a : Bind(Strip(synthesisFiles[k].text), LAMBDA text :
         Bind(content_hash(text), LAMBDA h :
           IF Len(text) < 100 THEN SynthesisLoop(a, force, k + 1)
           ELSE IF AlreadyEmbedded(h, a.hashes, force)
             THEN SynthesisLoop(a, force, k + 1)
           ELSE SynthesisLoop(
                  [SynthesisChunkLoop(a, SYNTHESIS_PATHS[k], h,
                                      SynthesisChunks(text), 0)
                     EXCEPT !.hashes = @ \cup {h}],
                  force, k + 1))))

embed_synthesis(col, state, force, oracle, calls) ==
  SynthesisLoop(Start(col, state, oracle, calls), force, 1)

\* `ts < cutoff and not force`; a timestamp that does not parse, or that has
\* no offset and so cannot be compared, leaves the entry in
TooOld(e, cutoff, force) ==
  /\ "timestamp" \in DOMAIN e
  /\ e.timestamp.aware
  /\ e.timestamp.day < cutoff
  /\ ~force

\* the entries embed_feed keeps while reading the file
RECURSIVE FeedEntries(_, _, _)
FeedEntries(lines, cutoff, force) ==
  IF lines = <<>> THEN <<>>
  ELSE IF Malformed(Head(lines)) THEN FeedEntries(Tail(lines), cutoff, force)
  ELSE IF TooOld(Head(lines), cutoff, force) \/ ~is_financial_topic(Head(lines))
    THEN FeedEntries(Tail(lines), cutoff, force)
  ELSE <<Head(lines)>> \o FeedEntries(Tail(lines), cutoff, force)

\* new_entries of embed_feed
RECURSIVE NewEntries(_, _, _)
NewEntries(entries, embedded_hashes, force) ==
  IF entries = <<>> THEN <<>>
  ELSE Bind(FeedText(Head(entries)), LAMBDA text :
         Bind(content_hash(text), LAMBDA h :
           IF Len(text) < 50 \/ AlreadyEmbedded(h, embedded_hashes, force)
             THEN NewEntries(Tail(entries), embedded_hashes, force)
           ELSE <<[e |-> Head(entries), h |-> h]>>
                \o NewEntries(Tail(entries), embedded_hashes, force)))

\* the embedding loop of embed_feed
RECURSIVE FeedLoop(_, _)
FeedLoop(acc, new_entries) ==
  IF new_entries = <<>> THEN acc
  ELSE LET e == Head(new_entries).e
           h == Head(new_entries).h
       IN  Bind(acc, LAMBDA a : Bind(
             EmbedUnit(a, P_feed \o h,
                       [topic |-> Get(e, "topic", <<>>), hash |-> h,
                        embedded_at |-> today, type |-> "feed_entry"], h),
             LAMBDA a1 :
               FeedLoop(IF a1.count > a.count
                          THEN [a1 EXCEPT !.hashes = @ \cup {h}] ELSE a1,
                        Tail(new_entries))))

embed_feed(col, state, days_back, force, oracle, calls) ==
  Bind(Start(col, state, oracle, calls), LAMBDA acc :
    Bind(NewEntries(FeedEntries(feedFile, today - days_back, force),
                    acc.hashes, force),
         LAMBDA new_entries : FeedLoop(acc, new_entries)))

\* the entry loop of embed_thesis
RECURSIVE ThesisLoop(_, _, _)
ThesisLoop(acc, force, entries) ==
  IF entries = <<>> THEN acc
  ELSE Bind(acc, LAMBDA a : Bind(ThesisText(Head(entries)), LAMBDA text :
         Bind(content_hash(text), LAMBDA h :
           IF Len(text) < 30 \/ AlreadyEmbedded(h, a.hashes, force)
             THEN ThesisLoop(a, force, Tail(entries))
           ELSE Bind(
                  EmbedUnit(a, P_thesis \o h,
                            [video_title |-> Get(Head(entries), "video_title", <<>>),
                             hash |-> h, embedded_at |-> today,
                             type |-> "thesis"], h),
                  LAMBDA a1 :
                    ThesisLoop(IF a1.count > a.count
                                 THEN [a1 EXCEPT !.hashes = @ \cup {h}] ELSE a1,
                               force, Tail(entries))))))

embed_thesis(col, state, force, oracle, calls) ==
  ThesisLoop(Start(col, state, oracle, calls), force, thesisFile)

\* the calls of one embed_* function, each with its collection
InCollection(log, c) ==
  [i \in 1..Len(log) |->
     [collection |-> c, unit |-> log[i].unit, id |-> log[i].id, ok |-> log[i].ok]]

\* main() past the backend checks and the --stats exit: what it leaves in the
\* state file and the collections, and what it reports
MainResult(args, oracle) ==
  LET state == load_state
      days == IF args.full_backfill THEN 90 ELSE 14
      State1(a) == [state EXCEPT !.embedded_hashes = a.hashes]
      State2(a, b) == [State1(a) EXCEPT !.embedded_hashes = b.hashes]
      State3(a, b, c) == [State2(a, b) EXCEPT !.embedded_hashes = c.hashes]
  IN  Bind(embed_synthesis(chroma.synthesis, state, args.force, oracle, 0),
        LAMBDA a :
          IF args.synthesis_only
            THEN [state |-> [State1(a) EXCEPT !.total_embedded = @ + a.count],
                  chroma |-> [chroma EXCEPT !.synthesis = a.col],
                  counts |-> [synthesis |-> a.count, feed |-> 0, thesis |-> 0],
                  embedded |-> a.embedded,
                  failed |-> 0,
                  failed_chunks |-> a.failed,
                  calls |-> a.calls,
                  log |-> InCollection(a.log, "synthesis")]
          ELSE Bind(embed_feed(chroma.feed, State1(a), days, args.force, oracle,
                               a.calls),
            LAMBDA b :
              Bind(embed_thesis(chroma.thesis, State2(a, b), args.force, oracle,
                                b.calls),
                LAMBDA c :
                  [state |-> [State3(a, b, c) EXCEPT
                                !.total_embedded = @ + a.count + b.count + c.count],
                   chroma |-> [synthesis |-> a.col, feed |-> b.col, thesis |-> c.col],
                   counts |-> [synthesis |-> a.count, feed |-> b.count,
                               thesis |-> c.count],
                   embedded |-> a.embedded \cup b.embedded \cup c.embedded,
                   failed |-> b.failed + c.failed,
                   failed_chunks |-> a.failed,
                   calls |-> c.calls,
                   log |-> InCollection(a.log, "synthesis")
                           \o InCollection(b.log, "feed")
                           \o InCollection(c.log, "thesis")])))

----------------------------------------------------------------------------
(* The indexer and its inputs as a state machine *)

MaxRuns == 2

MaxEdits == 1

\* the calls of a run at which a failure can strike, and how many can
MaxCalls == 3

MaxFailures == 1

FailKinds == {"none", "raise"}

Oracles ==
  UNION {[P -> FailKinds] :
           P \in {Q \in SUBSET (1..MaxCalls) : Cardinality(Q) <= MaxFailures}}

Args(force, full_backfill, synthesis_only) ==
  [force |-> force, full_backfill |-> full_backfill, synthesis_only |-> synthesis_only]

\* the invocations: plain, --force, --full-backfill, --synthesis-only
Invocations ==
  {Args(FALSE, FALSE, FALSE), Args(TRUE, FALSE, FALSE),
   Args(FALSE, TRUE, FALSE), Args(FALSE, FALSE, TRUE)}

EmbedInputs ==
  { [files |-> <<File(SynthMedium), NoFile, File(SynthShort)>>,
     feed |-> <<FeedRecent, FeedOld, FeedPlain>>,
     thesis |-> <<ThesisFull, ThesisThin>>],
    [files |-> <<File(SynthLong), File(SynthMedium), NoFile>>,
     feed |-> <<FeedAncient, FeedShort, FeedNaive, FeedTwin, FeedRecent>>,
     thesis |-> <<ThesisFull, ThesisTwin>>],
    [files |-> <<NoFile, NoFile, NoFile>>,
     feed |-> <<FeedUnstamped>>,
     thesis |-> <<>>] }

EmbedInit ==
  /\ \E in \in EmbedInputs :
       /\ synthesisFiles = in.files
       /\ feedFile = in.feed
       /\ thesisFile = in.thesis
  /\ today = 100
  /\ stateFile = [exists |-> FALSE]
  /\ chroma = [synthesis |-> <<>>, feed |-> <<>>, thesis |-> <<>>]
  /\ embedRun = [ran |-> "none"]
  /\ inputsTouched = FALSE
  /\ embedSteps = [runs |-> 0, edits |-> 0]
  /\ NotEmbedIdle

\* a synthesis file is written anew
WriteSynthesis ==
  /\ embedSteps.edits < MaxEdits
  /\ \E k \in 1..Len(SYNTHESIS_PATHS), text \in {SynthEdited} :
       /\ synthesisFiles[k] # File(text)
       /\ synthesisFiles' = [synthesisFiles EXCEPT ![k] = File(text)]
  /\ inputsTouched' = TRUE
  /\ embedSteps' = [embedSteps EXCEPT !.edits = @ + 1]
  /\ UNCHANGED <<feedFile, thesisFile, today, stateFile, chroma, embedRun, notEmbed>>

\* an entry is appended to the feed
AppendFeed ==
  /\ embedSteps.edits < MaxEdits
  /\ \E e \in {FeedTwin, FeedOld} : feedFile' = Append(feedFile, e)
  /\ inputsTouched' = TRUE
  /\ embedSteps' = [embedSteps EXCEPT !.edits = @ + 1]
  /\ UNCHANGED <<synthesisFiles, thesisFile, today, stateFile, chroma, embedRun, notEmbed>>

\* an entry is appended to the ledger
AppendThesis ==
  /\ embedSteps.edits < MaxEdits
  /\ \E e \in {ThesisTwin, ThesisOther} : thesisFile' = Append(thesisFile, e)
  /\ inputsTouched' = TRUE
  /\ embedSteps' = [embedSteps EXCEPT !.edits = @ + 1]
  /\ UNCHANGED <<synthesisFiles, feedFile, today, stateFile, chroma, embedRun, notEmbed>>

\* time passes: the inputs stay as they are
DaysPass ==
  /\ embedSteps.edits < MaxEdits
  /\ today' = today + 10
  /\ embedSteps' = [embedSteps EXCEPT !.edits = @ + 1]
  /\ UNCHANGED <<synthesisFiles, feedFile, thesisFile, stateFile, chroma, embedRun,
                 inputsTouched, notEmbed>>

\* a run that goes on without the backend and saves the state it loaded
MainUnreachable_SavesState ==
  /\ embedSteps.runs < MaxRuns
  /\ \E backend \in {"unreachable", "no_model"} :
       embedRun' = [ran |-> "aborted", backend |-> backend, exit_code |-> 1]
  /\ stateFile' = save_state(load_state)
  /\ inputsTouched' = FALSE
  /\ embedSteps' = [embedSteps EXCEPT !.runs = @ + 1]
  /\ UNCHANGED <<synthesisFiles, feedFile, thesisFile, today, chroma, notEmbed>>

\* main(): the request to the backend fails ("unreachable"), or the backend
\* lacks the model ("no_model"): sys.exit(1)
MainUnreachable ==
  /\ embedSteps.runs < MaxRuns
  /\ \E backend \in {"unreachable", "no_model"} :
       embedRun' = [ran |-> "aborted", backend |-> backend, exit_code |-> 1]
  /\ inputsTouched' = FALSE
  /\ embedSteps' = [embedSteps EXCEPT !.runs = @ + 1]
  /\ UNCHANGED <<synthesisFiles, feedFile, thesisFile, today, stateFile, chroma, notEmbed>>

\* main() --stats: prints the collection sizes
MainStats ==
  /\ embedSteps.runs < MaxRuns
  /\ embedRun' = [ran |-> "stats"]
  /\ inputsTouched' = FALSE
  /\ embedSteps' = [embedSteps EXCEPT !.runs = @ + 1]
  /\ UNCHANGED <<synthesisFiles, feedFile, thesisFile, today, stateFile, chroma, notEmbed>>

\* the process is killed before save_state: at its last embedding call that
\* a failure can strike, or after all of them
KillOracles == {<<>>, [j \in {MaxCalls} |-> "killed"]}

\* the invocations that get killed: plain and --force
KilledInvocations == {Args(FALSE, FALSE, FALSE), Args(TRUE, FALSE, FALSE)}

\* main(): a run that embeds, to its end or until the process is killed
MainEmbed ==
  /\ embedSteps.runs < MaxRuns
  /\ \E fate \in {"done", "killed"} :
       \E args \in IF fate = "killed" THEN KilledInvocations ELSE Invocations,
          oracle \in IF fate = "killed" THEN KillOracles ELSE Oracles :
         \E res \in {MainResult(args, oracle)} :
           /\ chroma' = res.chroma
           /\ IF fate = "killed"
                THEN /\ embedRun' = [ran |-> "killed", args |-> args]
                     /\ UNCHANGED stateFile
                ELSE /\ stateFile' = save_state(res.state)
                     /\ embedRun' = [ran |-> "done", args |-> args,
                                     loaded |-> load_state.embedded_hashes,
                                     counts |-> res.counts,
                                     embedded |-> res.embedded,
                                     failed |-> res.failed,
                                     failed_chunks |-> res.failed_chunks,
                                     calls |-> res.calls,
                                     log |-> res.log]
  /\ inputsTouched' = FALSE
  /\ embedSteps' = [embedSteps EXCEPT !.runs = @ + 1]
  /\ UNCHANGED <<synthesisFiles, feedFile, thesisFile, today, notEmbed>>

RunEmbed == MainUnreachable \/ MainStats \/ MainEmbed

EmbedNext ==
  \/ WriteSynthesis
  \/ AppendFeed
  \/ AppendThesis
  \/ DaysPass
  \/ RunEmbed

SpecEmbed == EmbedInit /\ [][EmbedNext]_vars

----------------------------------------------------------------------------
(* Properties of the indexer *)

\* the hashes the state file holds (none when there is no file)
PersistedHashes(file) == IF file.exists THEN file.embedded_hashes ELSE {}

\* a step that is an indexer run
IsEmbedRun == embedSteps'.runs = embedSteps.runs + 1

\* a second completed run in a row: same options, no force, inputs untouched
SecondRunInARow ==
  /\ IsEmbedRun
  /\ embedRun.ran = "done"
  /\ embedRun'.ran = "done"
  /\ ~inputsTouched
  /\ ~embedRun'.args.force
  /\ embedRun'.args = embedRun.args

EmbedsNothing ==
  /\ embedRun'.counts = [synthesis |-> 0, feed |-> 0, thesis |-> 0]
  /\ chroma' = chroma

C5_HashesOnlyGrow ==
  [][IsEmbedRun =>
       /\ PersistedHashes(stateFile) \subseteq PersistedHashes(stateFile')
       /\ (embedRun'.ran = "done" /\ embedRun'.args.force =>
             embedRun'.embedded \subseteq PersistedHashes(stateFile'))]_vars

\* a forced run re-embedded a unit whose hash it had loaded
C5_Witness ==
  /\ embedRun.ran = "done"
  /\ embedRun.args.force
  /\ embedRun.embedded \cap embedRun.loaded # {}
  /\ embedRun.embedded \subseteq PersistedHashes(stateFile)

\* ------------------------------------------------------------------------
\* quality-scorer.py: the insight detector (is_novel, telegram, main)

\* the characters a timestamp is written with, in code-point order
StampChars ==
  <<"+","-",".","0","1","2","3","4","5","6","7","8","9",":","T","Z">>

CodePoint(c) == CHOOSE i \in 1..Len(StampChars) : StampChars[i] = c

\* a < b for two strs, from position i on
RECURSIVE StrLessFrom(_, _, _)
StrLessFrom(a, b, i) ==
  IF i > Len(a) THEN i <= Len(b)
  ELSE IF i > Len(b) THEN FALSE
  ELSE IF a[i] = b[i] THEN StrLessFrom(a, b, i + 1)
  ELSE CodePoint(a[i]) < CodePoint(b[i])

StrLess(a, b) == StrLessFrom(a, b, 1)

TwoDigits(n) == <<Digits[(n \div 10) + 1], Digits[(n % 10) + 1]>>

\* datetime.isoformat() of minute m of the day, "HH:MM"; the date, the seconds
\* and the offset, which every timestamp of the model shares, are left out
isoformat(m) == TwoDigits(m \div 60) \o <<":">> \o TwoDigits(m % 60)

\* set(s.split())
WordSet(s) ==
  LET starts == {i \in 1..Len(s) :
                   s[i] \notin Whitespace /\ (i = 1 \/ s[i - 1] \in Whitespace)}
      stop(i) == MinOf({j \in i..Len(s) :
                          j = Len(s) \/ s[j + 1] \in Whitespace})
  IN  {SubSeq(s, i, stop(i)) : i \in starts}

\* [e for e in recent_entries if e.get('topic') == topic]
SameTopic(recent_entries, topic) ==
  LET Same(e) == "topic" \in DOMAIN e /\ e.topic = topic
  IN  SelectSeq(recent_entries, Same)

\* str(e.get('finding', ''))[:150].lower()
NoveltyText(e) == Lower(Prefix(Get(e, "finding", <<>>), 150))

\* len(words_new & words_old) / len(words_new) > 0.6
TooSimilar(words_new, words_old) ==
  10 * Cardinality(words_new \cap words_old) > 6 * Cardinality(words_new)

is_novel(entry, recent_entries) ==
  LET finding == NoveltyText(entry)
      topic == Get(entry, "topic", <<>>)
      same_topic == SameTopic(recent_entries, topic)
      last == LastK(same_topic, 10)
      words_new == WordSet(finding)
  IN  \A i \in 1..Len(last) :
        /\ Cardinality(words_new) >= 5
        /\ ~TooSimilar(words_new, WordSet(NoveltyText(last[i])))

\* 'unknown'
Unknown == <<"u","n","k","n","o","w","n">>

\* the keys of topic_counts, in the order the entries first use them
RECURSIVE TopicKeys(_, _)
TopicKeys(entries, acc) ==
  IF entries = <<>> THEN acc
  ELSE LET t == Get(Head(entries), "topic", Unknown)
       IN  TopicKeys(Tail(entries),
                     IF \E i \in 1..Len(acc) : acc[i] = t THEN acc
                     ELSE Append(acc, t))

\* sorted(items, key=lambda x: -x[1]): a stable sort, highest average first
RECURSIVE SortByAverage(_, _)
SortByAverage(items, acc) ==
  IF items = <<>> THEN acc
  ELSE LET item == Head(items)
           k == Cardinality({i \in 1..Len(acc) : acc[i][2] >= item[2]})
       IN  SortByAverage(Tail(items),
                         SubSeq(acc, 1, k) \o <<item>>
                         \o SubSeq(acc, k + 1, Len(acc)))

CountIf(scores, Test(_)) == Len(SelectSeq(scores, Test))

\* round(a / b) of a float quotient: the nearest integer, and at a decimal tie
\* either neighbour, as the binary value of the quotient falls
RoundChoices(a, b) ==
  IF 2 * (a % b) < b THEN {a \div b}
  ELSE IF 2 * (a % b) > b THEN {(a \div b) + 1}
  ELSE {a \div b, (a \div b) + 1}

\* the metrics main can write to QUALITY_FILE from the entries' scores (in
\* thousandths): averages over all entries and over the last 30 in
\* hundredths, per-topic averages in thousandths rounded to one decimal
Metrics(entries, scores, now) ==
  LET keys == TopicKeys(entries, <<>>)
      Of(t) == {i \in 1..Len(entries) : Get(entries[i], "topic", Unknown) = t}
      Total(t) == SumSeq([i \in 1..Len(entries) |->
                            IF i \in Of(t) THEN scores[i] ELSE 0])
      Choices(i) == RoundChoices(Total(keys[i]), Cardinality(Of(keys[i])) * 100)
      topic_avgs == {t \in [1..Len(keys) -> UNION {Choices(i) : i \in 1..Len(keys)}] :
                       \A i \in 1..Len(keys) : t[i] \in Choices(i)}
      recent_30 == IF Len(scores) >= 30 THEN LastK(scores, 30) ELSE scores
      High(s) == s >= 4000
      Low(s) == s <= 1500
      B12(s) == s < 2000
      B23(s) == 2000 <= s /\ s < 3000
      B34(s) == 3000 <= s /\ s < 4000
  IN  {[timestamp |-> isoformat(now),
        total_entries |-> Len(entries),
        avg_quality |-> avg,
        recent_30_avg |-> recent_avg,
        high_quality_count |-> CountIf(scores, High),
        low_quality_count |-> CountIf(scores, Low),
        topic_averages |->
          SortByAverage([i \in 1..Len(keys) |-> <<keys[i], t[i] * 100>>], <<>>),
        score_distribution |->
          [b \in {"1-2", "2-3", "3-4", "4-5"} |->
             CASE b = "1-2" -> CountIf(scores, B12)
               [] b = "2-3" -> CountIf(scores, B23)
               [] b = "3-4" -> CountIf(scores, B34)
               [] OTHER -> CountIf(scores, High)]] :
         avg \in RoundChoices(SumSeq(scores), Len(scores) * 10),
         recent_avg \in RoundChoices(SumSeq(recent_30), Len(recent_30) * 10),
         t \in topic_avgs}

\* a detector that starts every run from an empty notified set
LoadSent_Empty(file) == {}

\* set(json.loads(SENT_INSIGHTS.read_text())), the empty set when the file is
\* missing or does not parse
LoadSent(file) == IF file.exists /\ file.valid THEN file.hashes ELSE {}

\* hashlib.md5(finding[:100].encode()).hexdigest()
FindingDigest(e) == md5_hexdigest(Prefix(Get(e, "finding", <<>>), 100))

\* ------------------------------------------------------------------------
\* The feed entries the detector is run on

\* "study found that evidence from a clinical trial gave 5% gain at $10 in
\* 2024 http://x"
HighText ==
  <<"s","t","u","d","y"," ","f","o","u","n","d"," ","t","h","a","t"," ","e",
    "v","i","d","e","n","c","e"," ","f","r","o","m"," ","a"," ","c","l","i",
    "n","i","c","a","l"," ","t","r","i","a","l"," ","g","a","v","e"," ","5",
    "%"," ","g","a","i","n"," ","a","t"," ","$","1","0"," ","i","n"," ","2",
    "0","2","4"," ","h","t","t","p",":","/","/","x">>

\* "research shows a novel mechanism and pathway with 7% gain at $250 in 1999
\* http://x"
TieText ==
  <<"r","e","s","e","a","r","c","h"," ","s","h","o","w","s"," ","a"," ","n",
    "o","v","e","l"," ","m","e","c","h","a","n","i","s","m"," ","a","n","d",
    " ","p","a","t","h","w","a","y"," ","w","i","t","h"," ","7","%"," ","g",
    "a","i","n"," ","a","t"," ","$","2","5","0"," ","i","n"," ","1","9","9",
    "9"," ","h","t","t","p",":","/","/","x">>

\* "peer-reviewed meta-analysis published in a journal found that the
\* significant correlation held for 5% of cases at $10 per dose in 2024 and
\* 3.5% in 1999 while the paper notes that the effect is stable across all of
\* the cohorts that were followed for years http://x"
TopText ==
  <<"p","e","e","r","-","r","e","v","i","e","w","e","d"," ","m","e","t","a",
    "-","a","n","a","l","y","s","i","s"," ","p","u","b","l","i","s","h","e",
    "d"," ","i","n"," ","a"," ","j","o","u","r","n","a","l"," ","f","o","u",
    "n","d"," ","t","h","a","t"," ","t","h","e"," ","s","i","g","n","i","f",
    "i","c","a","n","t"," ","c","o","r","r","e","l","a","t","i","o","n"," ",
    "h","e","l","d"," ","f","o","r"," ","5","%"," ","o","f"," ","c","a","s",
    "e","s"," ","a","t"," ","$","1","0"," ","p","e","r"," ","d","o","s","e",
    " ","i","n"," ","2","0","2","4"," ","a","n","d"," ","3",".","5","%"," ",
    "i","n"," ","1","9","9","9"," ","w","h","i","l","e"," ","t","h","e"," ",
    "p","a","p","e","r"," ","n","o","t","e","s"," ","t","h","a","t"," ","t",
    "h","e"," ","e","f","f","e","c","t"," ","i","s"," ","s","t","a","b","l",
    "e"," ","a","c","r","o","s","s"," ","a","l","l"," ","o","f"," ","t","h",
    "e"," ","c","o","h","o","r","t","s"," ","t","h","a","t"," ","w","e","r",
    "e"," ","f","o","l","l","o","w","e","d"," ","f","o","r"," ","y","e","a",
    "r","s"," ","h","t","t","p",":","/","/","x">>

\* "study found that evidence from a clinical trial is strong http://x"
MidText ==
  <<"s","t","u","d","y"," ","f","o","u","n","d"," ","t","h","a","t"," ","e",
    "v","i","d","e","n","c","e"," ","f","r","o","m"," ","a"," ","c","l","i",
    "n","i","c","a","l"," ","t","r","i","a","l"," ","i","s"," ","s","t","r",
    "o","n","g"," ","h","t","t","p",":","/","/","x">>

\* "it is known that sleep is important"
LowText ==
  <<"i","t"," ","i","s"," ","k","n","o","w","n"," ","t","h","a","t"," ","s",
    "l","e","e","p"," ","i","s"," ","i","m","p","o","r","t","a","n","t">>

\* "study found that evidence on the long bond term premium is rising
\* http://x"
YieldText ==
  <<"s","t","u","d","y"," ","f","o","u","n","d"," ","t","h","a","t"," ","e",
    "v","i","d","e","n","c","e"," ","o","n"," ","t","h","e"," ","l","o","n",
    "g"," ","b","o","n","d"," ","t","e","r","m"," ","p","r","e","m","i","u",
    "m"," ","i","s"," ","r","i","s","i","n","g"," ","h","t","t","p",":","/",
    "/","x">>

\* "breakthrough study found that evidence from a clinical trial gave 7% gain
\* at $250 in 1999 http://x"
SelfText ==
  <<"b","r","e","a","k","t","h","r","o","u","g","h"," ","s","t","u","d","y",
    " ","f","o","u","n","d"," ","t","h","a","t"," ","e","v","i","d","e","n",
    "c","e"," ","f","r","o","m"," ","a"," ","c","l","i","n","i","c","a","l",
    " ","t","r","i","a","l"," ","g","a","v","e"," ","7","%"," ","g","a","i",
    "n"," ","a","t"," ","$","2","5","0"," ","i","n"," ","1","9","9","9"," ",
    "h","t","t","p",":","/","/","x">>

TopicYields ==
  <<"t","r","e","a","s","u","r","y","-","y","i","e","l","d","s">>

\* f"auction note {k} posted"
Filler(k) ==
  <<"a","u","c","t","i","o","n"," ","n","o","t","e"," ">> \o DecStr(k)
  \o <<" ","p","o","s","t","e","d">>

\* an entry without a topic
Finding(text) == [finding |-> text]

\* entry e with the timestamp ts
At(e, ts) ==
  [k \in DOMAIN e \cup {"timestamp"} |->
     IF k = "timestamp" THEN ts ELSE e[k]]

E_high == Finding(HighText)

E_tie == Finding(TieText)

E_top == Finding(TopText)

E_mid == Finding(MidText)

E_low == Finding(LowText)

E_yield == Entry(TopicYields, YieldText)

E_self == Entry(TopicSleep, SelfText)

E_filler(k) == Entry(TopicYields, Filler(k))

EngineUniverse ==
  {E_high, E_tie, E_top, E_mid, E_low, E_yield, E_self}
  \cup {E_filler(k) : k \in 1..10}

\* the part of an entry score_entry reads
ScoreKey(e) ==
  [k \in DOMAIN e \cap {"finding", "insight", "content", "topic"} |-> e[k]]

\* score_entry and the digest of the entries above, computed once
ScoreMemo == {<<e, score_entry(e)>> : e \in EngineUniverse}

DigestMemo == {<<e.finding, FindingDigest(e)>> : e \in EngineUniverse}

\* score_entry(e)
Scored(e) ==
  LET key == ScoreKey(e)
      known == {p \in ScoreMemo : p[1] = key}
  IN  IF known = {} THEN score_entry(key) ELSE (CHOOSE p \in known : TRUE)[2]

\* hashlib.md5(str(e.get('finding', ''))[:100].encode()).hexdigest()
fhash(e) ==
  LET known == {p \in DigestMemo : p[1] = Get(e, "finding", <<>>)}
  IN  IF known = {} THEN FindingDigest(e) ELSE (CHOOSE p \in known : TRUE)[2]

\* ------------------------------------------------------------------------
\* main of quality-scorer.py

\* new_insights: of the last 15 entries those not older than the cutoff,
\* scoring 3.5 or more, not sent before and novel, as (e, score, fhash)
NewInsights(entries, cutoff, sent) ==
  LET Kept(e) == /\ ~StrLess(Get(e, "timestamp", <<>>), cutoff)
                 /\ Scored(e) >= 3500
                 /\ fhash(e) \notin sent
                 /\ is_novel(e, entries)
      kept == SelectSeq(LastK(entries, 15), Kept)
  IN  [i \in 1..Len(kept) |->
         [e |-> kept[i], score |-> Scored(kept[i]), fhash |-> fhash(kept[i])]]

\* max(new_insights, key=lambda x: x[1]): the first of the highest score
Best(new_insights) ==
  new_insights[CHOOSE i \in 1..Len(new_insights) :
                 \A j \in 1..Len(new_insights) :
                   /\ new_insights[j].score <= new_insights[i].score
                   /\ j < i => new_insights[j].score < new_insights[i].score]

\* a detector that sends whatever scored best
ShouldSend_Always(score, is_priority) == TRUE

\* score >= 4.0 or (is_priority and score >= 3.5)
ShouldSend(score, is_priority) ==
  score >= 4000 \/ (is_priority /\ score >= 3500)

\* the parts of f"[{topic}] (quality: {score}/5)\n\n{finding}"
Message(e, score) ==
  [topic |-> Get(e, "topic", Unknown),
   score |-> score,
   finding |-> Prefix(Get(e, "finding", <<>>), 300)]

\* the slice bound of list(sent)[-500:]
SENT_KEEP == 500

\* what list(sent)[-k:] can be: a set is listed in no particular order, so
\* the elements the slice leaves out are any len(sent) - k of them
RECURSIVE KeepLast(_, _)
KeepLast(sent, k) ==
  IF Cardinality(sent) <= k THEN {sent}
  ELSE UNION {KeepLast(sent \ {h}, k) : h \in sent}

\* what main computes before it calls telegram: the metrics, the sent set,
\* new_insights and the calls of telegram it goes on to make
Detect(entries, now, file) ==
  LET scores == [i \in 1..Len(entries) |-> Scored(entries[i])]
      cutoff == isoformat(now - 20)
      sent == LoadSent(file)
      new_insights == NewInsights(entries, cutoff, sent)
      best == Best(new_insights)
      topic == Get(best.e, "topic", Unknown)
  IN  [metrics |-> Metrics(entries, scores, now),
       sent |-> sent,
       new_insights |-> new_insights,
       calls |-> IF new_insights # <<>>
                    /\ ShouldSend(best.score, IsPriority(topic))
                 THEN <<[fhash |-> best.fhash, score |-> best.score,
                         topic |-> topic,
                         msg |-> Message(best.e, best.score)]>>
                 ELSE <<>>]

\* ------------------------------------------------------------------------
\* The detector as a state machine: runs of main, entries appended to the
\* feed and the clock moving on

\* runs of the detector in a behaviour
MaxScorerRuns == 3

\* entries appended to the feed in a behaviour
MaxFeedAppends == 1

\* quarter hours the clock moves on in a behaviour
MaxTicks == 2

\* two candidates of different scores behind a shallow entry
F_two ==
  <<At(E_low, isoformat(590)), At(E_mid, isoformat(592)),
    At(E_high, isoformat(595))>>

\* two candidates of the same score
F_tie == <<At(E_high, isoformat(595)), At(E_tie, isoformat(596))>>

\* one candidate under 4.0 without a priority topic, behind an entry that is
\* among the last ten of its own topic
F_mid == <<At(E_self, isoformat(598)), At(E_mid, isoformat(599))>>

\* a priority-topic entry under 4.0 with ten later entries of its topic
F_prio ==
  <<At(E_yield, isoformat(585))>>
  \o [k \in 1..10 |-> At(E_filler(k), isoformat(586))]

\* an entry older than the cutoff and one without a timestamp
F_old == <<At(E_high, isoformat(540)), E_top>>

EngineFeeds == {<<>>, F_two, F_tie, F_mid, F_prio, F_old}

NoSentFile == [exists |-> FALSE]

CorruptSentFile == [exists |-> TRUE, valid |-> FALSE]

SentFileOf(hashes) == [exists |-> TRUE, valid |-> TRUE, hashes |-> hashes]

EngineInit ==
  /\ insightFeed \in EngineFeeds
  /\ clock = 600  \* 10:00
  /\ sentFile \in {NoSentFile, CorruptSentFile, SentFileOf({fhash(E_high)})}
  /\ qualityFile = <<>>
  /\ telegramChat = <<>>
  /\ engineRun = [ran |-> "none"]
  /\ engineSteps = [runs |-> 0, appends |-> 0, ticks |-> 0]
  /\ NotEngineIdle

\* the feed parsing of main: the entries of the lines json.loads accepts
ReadFeed(lines) == SelectSeq(lines, LAMBDA line : ~Malformed(line))

\* one run of main; ok is whether the request of telegram succeeds
RunScorer ==
  /\ engineSteps.runs < MaxScorerRuns
  /\ engineSteps' = [engineSteps EXCEPT !.runs = @ + 1]
  /\ IF ReadFeed(insightFeed) = <<>>
       THEN /\ engineRun' = [ran |-> "returned"]
            /\ UNCHANGED <<sentFile, qualityFile, telegramChat>>
       ELSE \E d \in {Detect(ReadFeed(insightFeed), clock, sentFile)} :
              /\ qualityFile' \in d.metrics
              /\ \E ok \in BOOLEAN :
                   /\ engineRun' =
                        [ran |-> "done",
                         candidates |->
                           [i \in 1..Len(d.new_insights) |->
                              [fhash |-> d.new_insights[i].fhash,
                               score |-> d.new_insights[i].score]],
                         calls |-> d.calls,
                         delivered |-> d.calls # <<>> /\ ok]
                   /\ IF d.calls # <<>> /\ ok
                        THEN /\ telegramChat' =
                                  Append(telegramChat, d.calls[1].msg)
                             /\ \E kept \in KeepLast(d.sent \cup {d.calls[1].fhash},
                                                     SENT_KEEP) :
                                  sentFile' = SentFileOf(kept)
                        ELSE UNCHANGED <<sentFile, telegramChat>>
  /\ UNCHANGED <<insightFeed, clock, notEngine>>

\* the learner appends an entry stamped with the time it is written at
AppendInsight ==
  /\ engineSteps.appends < MaxFeedAppends
  /\ engineSteps' = [engineSteps EXCEPT !.appends = @ + 1]
  /\ \E e \in {E_top, E_mid} :
       insightFeed' = Append(insightFeed, At(e, isoformat(clock)))
  /\ UNCHANGED <<clock, sentFile, qualityFile, telegramChat, engineRun, notEngine>>

\* a quarter of an hour passes, the period the detector is run at
Tick ==
  /\ engineSteps.ticks < MaxTicks
  /\ engineSteps' = [engineSteps EXCEPT !.ticks = @ + 1]
  /\ clock' = clock + 15
  /\ UNCHANGED <<insightFeed, sentFile, qualityFile, telegramChat, engineRun, notEngine>>

EngineNext == RunScorer \/ AppendInsight \/ Tick

SpecEngine == EngineInit /\ [][EngineNext]_vars

\* ------------------------------------------------------------------------
\* Claims about the detector

\* a step that is a run of main
IsScorerRun == engineSteps'.runs = engineSteps.runs + 1

\* C9: a run of the detector delivers at most one message and calls telegram
\* at most once; the call is for a candidate of the run that no candidate of
\* the run outscores, and that candidate scores 4.0 or more, or scores 3.5 or
\* more under a priority topic.
C9_OneNotification ==
  [][IsScorerRun =>
       /\ Len(telegramChat') <= Len(telegramChat) + 1
       /\ engineRun'.ran = "returned" => telegramChat' = telegramChat
       /\ engineRun'.ran = "done" =>
            LET r == engineRun'
                call == r.calls[1]
            IN  /\ Len(r.calls) <= 1
                /\ telegramChat' # telegramChat =>
                     /\ r.calls # <<>>
                     /\ telegramChat' = Append(telegramChat, call.msg)
                /\ r.calls # <<>> =>
                     /\ \E i \in 1..Len(r.candidates) :
                          /\ r.candidates[i].fhash = call.fhash
                          /\ r.candidates[i].score = call.score
                     /\ \A i \in 1..Len(r.candidates) :
                          r.candidates[i].score <= call.score
                     /\ call.msg.score = call.score
                     /\ \/ call.score >= 4000
                        \/ IsPriority(call.topic) /\ call.score >= 3500
  ]_vars

\* a run with two candidates of different scores delivered a message
C9_Witness ==
  /\ engineRun.ran = "done"
  /\ engineRun.delivered
  /\ \E i, j \in 1..Len(engineRun.candidates) :
       engineRun.candidates[i].score < engineRun.candidates[j].score
  /\ telegramChat # <<>>

\* ------------------------------------------------------------------------
\* The detector with a notified set at its limit

\* f"earlier finding {i}", a finding notified before the behaviour starts
EarlierFinding(i) ==
  <<"e","a","r","l","i","e","r"," ","f","i","n","d","i","n","g"," ">>
  \o DecStr(i)

\* the hashes of n earlier findings
EarlierSent(n) == {FindingDigest(Finding(EarlierFinding(i))) : i \in 1..n}

SentFull == EarlierSent(SENT_KEEP)

SentCapInit ==
  /\ insightFeed \in {<<At(E_high, isoformat(595))>>, F_two}
  /\ clock = 600  \* 10:00
  /\ sentFile \in {SentFileOf(SentFull), SentFileOf(EarlierSent(SENT_KEEP - 1))}
  /\ qualityFile = <<>>
  /\ telegramChat = <<>>
  /\ engineRun = [ran |-> "none"]
  /\ engineSteps = [runs |-> 0, appends |-> 0, ticks |-> 0]
  /\ NotEngineIdle

SentCapNext == RunScorer

SpecSentCap == SentCapInit /\ [][SentCapNext]_vars

\* the hashes of the (up to) 500 findings delivered last
RecentlyNotified ==
  {fhash(Finding(telegramChat[i].finding)) :
     i \in Max2(1, Len(telegramChat) - SENT_KEEP + 1)..Len(telegramChat)}

\* C10: the persisted notified set never holds more than 500 hashes, holds
\* the hashes of the (up to) 500 findings notified last, and none of those
\* findings was notified twice.
C10_KeepsLastNotified ==
  /\ Cardinality(LoadSent(sentFile)) <= SENT_KEEP
  /\ RecentlyNotified \subseteq LoadSent(sentFile)
  /\ \A i, j \in Max2(1, Len(telegramChat) - SENT_KEEP + 1)..Len(telegramChat) :
       i # j =>
         fhash(Finding(telegramChat[i].finding))
           # fhash(Finding(telegramChat[j].finding))

\* ------------------------------------------------------------------------
\* Claims about the tasks an adjuster run appends

\* the labels a run over `health` owes the queue `tasks`: the remediation
\* label of every WEAK domain and the audit label of every OK domain trending
\* down, less the labels the queue already holds
OwedRemediation(tasks, health) ==
  {RemediationLabel(d, health[d]) : d \in {x \in DOMAIN health : health[x].tier = "WEAK"}}
  \ {tasks[i].label : i \in 1..Len(tasks)}

OwedAudit(tasks, health) ==
  {AuditLabel(d, health[d]) :
     d \in {x \in DOMAIN health : health[x].tier = "OK" /\ health[x].trend = "down"}}
  \ {tasks[i].label : i \in 1..Len(tasks)}

Collections == {"synthesis", "feed", "thesis"}

\* the id a record's content gives it: source, content hash and chunk index
ContentId(c, meta) ==
  CASE c = "synthesis" ->
         P_synthesis \o meta.source \o <<"_">> \o meta.hash \o <<"_">>
         \o DecStr(meta.chunk)
    [] c = "feed" -> P_feed \o meta.hash
    [] OTHER -> P_thesis \o meta.hash

\* every record is stored under the id of its content, so that no collection
\* holds two records of the same content
KeyedByContent(db) ==
  \A c \in Collections :
    \A id \in DOMAIN db[c] : id = ContentId(c, db[c][id])

\* a forced run repeated on untouched inputs after a forced run in which no
\* call failed
ForcedRepeat ==
  /\ IsEmbedRun
  /\ embedRun.ran = "done"
  /\ embedRun.args.force
  /\ embedRun.failed = 0
  /\ embedRun.failed_chunks = 0
  /\ ~inputsTouched
  /\ embedRun'.ran \in {"done", "killed"}
  /\ embedRun'.args = embedRun.args

ReRun ==
  /\ IsEmbedRun
  /\ ~inputsTouched
  /\ embedRun'.ran = "done"
  /\ \/ /\ embedRun.ran = "done"
        /\ embedRun.failed = 0
        /\ embedRun.failed_chunks = 0
        /\ embedRun'.args.force
     \/ /\ embedRun.ran = "killed"
        /\ embedRun'.args = embedRun.args

----------------------------------------------------------------------------
(* get_context_for_prompt of zeke-rag-query.py *)

\* Distances are integer ten-thousandths (0.2505 is 2505), relevances integer
\* thousandths (0.75 is 750).

MaxN == 2

COLLECTION_NAMES == <<"synthesis_outputs", "feed_entries", "thesis_ledger">>

NoCollection == [exists |-> FALSE]

Collection(records) == [exists |-> TRUE, records |-> records]

\* col.count()
Count(col) == Cardinality(col.records)

\* round(1 - dist, 3) of a float
Relevance(dist) == RoundChoices(10000 - dist, 10)

\* col.query(query_embeddings=[emb], n_results=k): the k records nearest to
\* the query, nearest first, records at the same distance in either order
Nearest(col, k) ==
  {r \in [1..k -> col.records] :
     /\ \A i, j \in 1..k : i < j =>
          /\ r[i] # r[j]
          /\ r[i].distance <= r[j].distance
     /\ \A x \in col.records :
          (\A i \in 1..k : r[i] # x) =>
            \A i \in 1..k : r[i].distance <= x.distance}

\* the lists query_collection(col, emb, n) can return: a hit for each result
\* with a document; a rejected n_results is an exception and gives []
query_collection(col, n) ==
  IF Min2(n, IF Count(col) = 0 THEN 1 ELSE Count(col)) <= 0 THEN {<<>>}
  ELSE LET k == Min2(n, IF Count(col) = 0 THEN 1 ELSE Count(col))
           HitsOf(r, rel) ==
             SelectSeq([i \in 1..k |->
                          [text |-> r[i].text, metadata |-> r[i].metadata,
                           distance |-> r[i].distance, relevance |-> rel[i]]],
                       LAMBDA h : h.text # <<>>)
       IN  UNION {{HitsOf(r, rel) :
                     rel \in {f \in [1..k -> UNION {Relevance(r[i].distance) : i \in 1..k}] :
                                \A i \in 1..k : f[i] \in Relevance(r[i].distance)}} :
                  r \in Nearest(col, k)}

\* h["collection"] = cname, for every hit of the list
Tagged(hits, cname) ==
  [i \in 1..Len(hits) |->
     [text |-> hits[i].text, metadata |-> hits[i].metadata,
      distance |-> hits[i].distance, relevance |-> hits[i].relevance,
      collection |-> cname]]

\* the collection loop of get_context_for_prompt, from collection k on: the
\* results it can build from the result so far
RECURSIVE CollectionLoop(_, _, _, _)
CollectionLoop(store, n, k, results) ==
  IF k > Len(COLLECTION_NAMES) THEN {results}
  ELSE LET cname == COLLECTION_NAMES[k]
           col == store[cname]
       IN  IF ~col.exists
             THEN CollectionLoop(store, n, k + 1,
                    [results EXCEPT !.collection_stats =
                       (cname :> "error") @@ @])
           ELSE IF Count(col) = 0
             THEN CollectionLoop(store, n, k + 1,
                    [results EXCEPT !.collection_stats = (cname :> 0) @@ @])
           ELSE UNION {CollectionLoop(store, n, k + 1,
                         [results EXCEPT
                            !.collection_stats = (cname :> Count(col)) @@ @,
                            !.context = @ \o Tagged(hits, cname)]) :
                       hits \in query_collection(col, n)}

\* results["context"] left in the order of the merge
SortByRelevance_Merged(items, acc) == acc \o items

\* results["context"].sort(key=lambda x: x.get("relevance", 0), reverse=True):
\* a stable sort, highest relevance first
RECURSIVE SortByRelevance(_, _)
SortByRelevance(items, acc) ==
  IF items = <<>> THEN acc
  ELSE LET item == Head(items)
           k == Cardinality({i \in 1..Len(acc) :
                               acc[i].relevance >= item.relevance})
       IN  SortByRelevance(Tail(items),
                           SubSeq(acc, 1, k) \o <<item>>
                           \o SubSeq(acc, k + 1, Len(acc)))

\* the results get_context_for_prompt(query, n) can return; emb_ok tells
\* whether embed_query returned a vector
get_context_for_prompt(store, n, emb_ok) ==
  IF ~emb_ok THEN {[error |-> "Embedding failed", context |-> <<>>]}
  ELSE {[r EXCEPT !.context = SortByRelevance(@, <<>>)] :
          r \in CollectionLoop(store, n, 1,
                               [context |-> <<>>, collection_stats |-> <<>>])}

\* the records of the three collections, and their distances to the query
Doc(id, text, distance) ==
  [metadata |-> [id |-> id], text |-> text, distance |-> distance]

SynthesisDocs ==
  {Doc("s1", <<"g","o","l","d">>, 2000), Doc("s2", <<"t","l","t">>, 2505),
   Doc("s3", <<>>, 9000)}

FeedDocs ==
  {Doc("f1", <<"o","i","l">>, 1000), Doc("f2", <<"g","d","x">>, 2515),
   Doc("f3", <<"b","t","c">>, 12000)}

ThesisDocs ==
  {Doc("t1", <<"u","s","d">>, 500), Doc("t2", <<"g","l","d">>, 2505),
   Doc("t3", <<"s","l","v">>, 2000)}

CollectionsOf(docs) == {NoCollection} \cup {Collection(s) : s \in SUBSET docs}

QueryInit ==
  /\ ragStore \in {[synthesis_outputs |-> s, feed_entries |-> f,
                    thesis_ledger |-> t] :
                     s \in CollectionsOf(SynthesisDocs),
                     f \in CollectionsOf(FeedDocs),
                     t \in CollectionsOf(ThesisDocs)}
  /\ ragArgs \in {[n |-> n] : n \in 0..MaxN}
  /\ ragResult = <<>>
  /\ NotQueryIdle

\* get_context_for_prompt(query, ragArgs.n)
GetContext ==
  /\ ragResult = <<>>
  /\ \E emb_ok \in BOOLEAN :
       \E r \in get_context_for_prompt(ragStore, ragArgs.n, emb_ok) :
         ragResult' = <<r>>
  /\ UNCHANGED <<ragStore, ragArgs, notQuery>>

QueryNext == GetContext

SpecQuery == QueryInit /\ [][QueryNext]_vars

\* the collections of the store that hold a record
NonEmpty ==
  {c \in DOMAIN ragStore : ragStore[c].exists /\ Count(ragStore[c]) > 0}

\* the hit is a record of the collection it is tagged with
FromItsCollection(h) ==
  /\ h.collection \in NonEmpty
  /\ \E x \in ragStore[h.collection].records :
       /\ x.metadata = h.metadata
       /\ x.text = h.text
       /\ x.distance = h.distance

\* C13: get_context_for_prompt(query, n) returns at most n hits for each
\* non-empty collection, every hit tagged with the collection it came from,
\* and the merged list is in order of non-increasing relevance
C13_BoundedTaggedSorted ==
  ragResult # <<>> =>
    LET context == ragResult[1].context
    IN  /\ Len(context) <= ragArgs.n * Cardinality(NonEmpty)
        /\ \A i \in 1..Len(context) : FromItsCollection(context[i])
        /\ \A i, j \in 1..Len(context) :
             i < j => context[i].relevance >= context[j].relevance

\* a query returned n hits of each of three non-empty collections, and a hit
\* of a later collection ranks before a hit of an earlier one
C13_Witness ==
  /\ ragResult # <<>>
  /\ ragArgs.n = MaxN
  /\ Cardinality(NonEmpty) = 3
  /\ Len(ragResult[1].context) = MaxN * 3
  /\ ragResult[1].context[1].collection = "thesis_ledger"
  /\ ragResult[1].context[2].collection = "feed_entries"
  /\ ragResult[1].context[3].relevance = ragResult[1].context[4].relevance
  /\ ragResult[1].context[3].collection = "synthesis_outputs"
  /\ ragResult[1].context[4].collection = "thesis_ledger"

----------------------------------------------------------------------------
(* chunk_text on 2600-character texts *)

TextLen == 2600

\* the 0-based places of a text where a sentence can end with ". "
PeriodSites == {650, 988, 1500, 1830, 2400}

\* the runs of blanks a text can hold: <<0-based start, length>>
BlankRuns == {<<940, 60>>, <<1700, 10>>}

\* a text of TextLen characters: letters, a ". " at each of the places
\* `periods` and blanks over the runs `blanks`
ChunkInput(periods, blanks) ==
  [i \in 1..TextLen |->
     IF \E b \in blanks : b[1] < i /\ i <= b[1] + b[2] THEN " "
     ELSE IF (i - 1) \in periods THEN "."
     ELSE IF (i - 2) \in periods THEN " "
     ELSE <<"a","b","c","d","e","f","g">>[(i % 7) + 1]]

ChunkInputs ==
  {ChunkInput(p, b) : p \in SUBSET PeriodSites,
                      b \in {{}} \cup {{r} : r \in BlankRuns}}

ChunkInit ==
  /\ chunkIn \in ChunkInputs
  /\ chunkOut = <<>>
  /\ NotChunkIdle

\* chunk_text(chunkIn, chunk_size=1000, overlap=150)
ChunkOne ==
  /\ chunkOut = <<>>
  /\ chunkOut' = <<chunk_text(chunkIn, 1000, 150)>>
  /\ UNCHANGED <<chunkIn, notChunk>>

ChunkNext == ChunkOne

SpecChunk == ChunkInit /\ [][ChunkNext]_vars

\* the two chunks share k characters or more: the last k characters of the
\* first are the first k characters of the second
Share(a, b, k) ==
  \E m \in k..Min2(Len(a), Len(b)) :
    SubSeq(a, Len(a) - m + 1, Len(a)) = SubSeq(b, 1, m)

\* C14: for any 2600-character text, chunk_text(text, 1000, 150) returns
\* chunks in which every two consecutive chunks share at least 100 characters
\* of overlapping text and no chunk is shorter than 50 characters
C14_OverlapAndLength ==
  (chunkOut # <<>> /\ Len(chunkIn) = TextLen) =>
    LET chunks == chunkOut[1]
    IN  /\ \A i \in 1..(Len(chunks) - 1) : Share(chunks[i], chunks[i + 1], 100)
        /\ \A i \in 1..Len(chunks) : Len(chunks[i]) >= 50

\* no chunk chunk_text returns for a 2600-character text is shorter than 50
\* characters
C14_NoShortChunk ==
  (chunkOut # <<>> /\ Len(chunkIn) = TextLen) =>
    \A i \in 1..Len(chunkOut[1]) : Len(chunkOut[1][i]) >= 50

\* the last chunk of a text repeats the end of the chunk before it and is
\* shorter than 100 characters
C14_TailChunk ==
  /\ chunkOut # <<>>
  /\ Len(chunkOut[1]) = 4
  /\ Len(chunkOut[1][4]) < 100
  /\ Share(chunkOut[1][3], chunkOut[1][4], Len(chunkOut[1][4]))

----------------------------------------------------------------------------
(* The health snapshot file *)

\* the domains an aggregator run over the scores file computes: those with
\* at least MIN_SAMPLES valid samples
ComputedDomains(file) ==
  {d \in FileDomains(file) : Len(SamplesOf(file, d)) >= MIN_SAMPLES}

----------------------------------------------------------------------------
(* Indexer runs and the embedding backend *)

\* a synthesis file the indexer would embed: there, and 100 characters or more
Embeddable(k) ==
  synthesisFiles[k].exists /\ Len(Strip(synthesisFiles[k].text)) >= 100

\* C16: if the embedding backend is unreachable for the whole indexing run,
\* the run fails outright, with an error exit, instead of skipping every
\* unit: it upserts nothing and leaves the persisted state as it was
C16_UnreachableFailsOutright ==
  [][MainUnreachable =>
       /\ embedRun'.ran = "aborted"
       /\ embedRun'.exit_code # 0
       /\ chroma' = chroma
       /\ stateFile' = stateFile]_vars

\* a run found the backend unreachable while a synthesis file was waiting to
\* be embedded: nothing is stored and there is no state file
C16_Witness ==
  /\ embedRun.ran = "aborted"
  /\ embedRun.backend = "unreachable"
  /\ \E k \in 1..Len(synthesisFiles) : Embeddable(k)
  /\ chroma.synthesis = <<>>
  /\ ~stateFile.exists

\* the records of all three collections
Records(db) == UNION {{<<c, id>> : id \in DOMAIN db[c]} : c \in Collections}

\* the calls of the log that gave a record
Stored(log) == {<<log[i].collection, log[i].id>> : i \in {j \in 1..Len(log) : log[j].ok}}

\* C17: when a single embedding call fails during an indexing run, only that
\* unit is skipped: no record is upserted for it, the call is not made again
\* in the run, the other units are processed and stored, and the run
\* completes and saves its state
C17_OneFailureOneSkip ==
  [][(IsEmbedRun /\ embedRun'.ran = "done"
        /\ embedRun'.failed + embedRun'.failed_chunks = 1) =>
       LET log == embedRun'.log
           clean == MainResult(embedRun'.args, <<>>)
           Total(counts) == counts.synthesis + counts.feed + counts.thesis
       IN  /\ Cardinality({i \in 1..Len(log) : ~log[i].ok}) = 1
           /\ \A i, j \in 1..Len(log) :
                i < j => <<log[i].collection, log[i].unit>>
                           # <<log[j].collection, log[j].unit>>
           /\ Len(log) = embedRun'.calls
           /\ Len(log) >= clean.calls
           /\ Records(chroma') = Records(chroma) \cup Stored(log)
           /\ Records(clean.chroma) \ Records(chroma') \subseteq
                {<<log[i].collection, log[i].id>> : i \in 1..Len(log)}
                  \ Stored(log)
           /\ Total(embedRun'.counts) = Len(log) - 1
           /\ stateFile'.exists
           /\ stateFile'.last_run = today
           /\ stateFile'.total_embedded =
                load_state.total_embedded + Total(embedRun'.counts)]_vars

\* a run in which the second of three calls failed has stored the unit before
\* it and the unit after it, and saved its state
C17_Witness ==
  /\ embedRun.ran = "done"
  /\ embedRun.failed = 1
  /\ Len(embedRun.log) = 3
  /\ embedRun.log[1].ok
  /\ ~embedRun.log[2].ok
  /\ embedRun.log[3].ok
  /\ <<embedRun.log[2].collection, embedRun.log[2].id>> \notin Records(chroma)
  /\ <<embedRun.log[3].collection, embedRun.log[3].id>> \in Records(chroma)
  /\ stateFile.exists
  /\ stateFile.total_embedded = 2

----------------------------------------------------------------------------
(* Missing and unparseable files, malformed lines *)

\* five treasury-bonds lines at 4.5 and five lines of an unmapped topic at
\* 2.0, with lines that do not parse before, between and after them
ScoresWithMalformed ==
  <<MalformedLine>> \o Repeat(Line(T_treasury, 45), 3) \o <<MalformedLine>>
  \o Repeat(Line(T_treasury, 45), 2) \o Repeat(Line(T_general, 20), 5)
  \o <<MalformedLine>>

\* the same lines when the first line of the file parses
ScoresMalformedWithin ==
  Repeat(Line(T_treasury, 45), 3) \o <<MalformedLine>>
  \o Repeat(Line(T_treasury, 45), 2) \o Repeat(Line(T_general, 20), 5)
  \o <<MalformedLine>>

\* the state file when its text is not JSON
CorruptStateFile == [exists |-> TRUE, valid |-> FALSE]

\* the feed of the detector with lines that do not parse
DefaultsFeeds ==
  {<<MalformedLine>> \o F_two,
   <<At(E_low, isoformat(590)), MalformedLine, At(E_high, isoformat(595))>>,
   <<At(E_high, isoformat(595)), MalformedLine>>,
   <<MalformedLine>>}

\* the adjuster, the detector or the indexer in front of unreadable files
DefaultsInit ==
  \/ /\ scoresFile \in {ScoresWithMalformed, ScoresMalformedWithin}
     /\ queueFile \in {NoQueueFile, CorruptQueueFile, QueueMixed}
     /\ healthFile = <<>>
     /\ lastRun = NoRun
     /\ appends = 0
     /\ NotWeightsIdle
  \/ /\ insightFeed \in DefaultsFeeds
     /\ clock = 600  \* 10:00
     /\ sentFile \in {NoSentFile, CorruptSentFile}
     /\ qualityFile = <<>>
     /\ telegramChat = <<>>
     /\ engineRun = [ran |-> "none"]
     /\ engineSteps = [runs |-> 0, appends |-> 0, ticks |-> 0]
     /\ NotEngineIdle
  \/ /\ synthesisFiles = <<File(SynthMedium), NoFile, NoFile>>
     /\ feedFile \in {<<MalformedLine, FeedRecent, MalformedLine, FeedPlain>>,
                      <<FeedRecent, FeedOld, MalformedLine>>}
     /\ thesisFile = <<ThesisFull>>
     /\ today = 100
     /\ stateFile \in {[exists |-> FALSE], CorruptStateFile}
     /\ chroma = [synthesis |-> <<>>, feed |-> <<>>, thesis |-> <<>>]
     /\ embedRun = [ran |-> "none"]
     /\ inputsTouched = FALSE
     /\ embedSteps = [runs |-> 0, edits |-> 0]
     /\ NotEmbedIdle

\* a run of the program that has files in front of it
DefaultsNext ==
  \/ NotWeightsIdle /\ RunWeights
  \/ NotEngineIdle /\ RunScorer
  \/ NotEmbedIdle /\ RunEmbed

SpecDefaults == DefaultsInit /\ [][DefaultsNext]_vars

\* the lines of a file that parse
WellFormed(lines) == SelectSeq(lines, LAMBDA line : ~Malformed(line))

\* the queue file is missing or does not parse
UnreadableQueue == queueFile \in {NoQueueFile, CorruptQueueFile}

\* the feed entries the indexer is to embed in a run without --force
Due(cutoff) ==
  {i \in 1..Len(feedFile) :
     /\ ~Malformed(feedFile[i])
     /\ ~TooOld(feedFile[i], cutoff, FALSE)
     /\ is_financial_topic(feedFile[i])
     /\ Len(FeedText(feedFile[i])) >= 50}

\* a run of the adjuster reads on past every malformed line and takes an
\* unreadable queue for the empty queue
AdjusterReadsOn ==
  (lastRun' # lastRun) =>
    LET domain_scores == load_scores(WellFormed(scoresFile))
        health == compute_health(domain_scores)
    IN  /\ lastRun'.ran
        /\ healthFile' = health
        /\ UnreadableQueue =>
             queueFile' =
               AdjustQueue(<<>>, HealthOrder(domain_scores), health).tasks
        /\ ~UnreadableQueue =>
             queueFile' =
               AdjustQueue(queueFile, HealthOrder(domain_scores), health).tasks

\* a run of the detector scores every well-formed line of the feed and takes
\* an unreadable notified set for the empty set
DetectorReadsOn ==
  (IsScorerRun /\ WellFormed(insightFeed) # <<>>) =>
    LET d == Detect(WellFormed(insightFeed), clock, SentFileOf({}))
    IN  /\ engineRun'.ran = "done"
        /\ qualityFile' \in d.metrics
        /\ sentFile \in {NoSentFile, CorruptSentFile} =>
             /\ engineRun'.calls = d.calls
             /\ Len(engineRun'.candidates) = Len(d.new_insights)

\* a run of the indexer takes an unreadable state file for the empty state
\* and embeds every well-formed feed line that is due
IndexerReadsOn ==
  (IsEmbedRun /\ embedRun'.ran = "done") =>
    /\ stateFile'.exists
    /\ stateFile \in {[exists |-> FALSE], CorruptStateFile} =>
         /\ embedRun'.loaded = {}
         /\ stateFile'.total_embedded =
              embedRun'.counts.synthesis + embedRun'.counts.feed
              + embedRun'.counts.thesis
    /\ (embedRun'.failed = 0 /\ ~embedRun'.args.synthesis_only
          /\ ~embedRun'.args.force) =>
         \A i \in Due(today - IF embedRun'.args.full_backfill
                                THEN 90 ELSE 14) :
           (P_feed \o content_hash(FeedText(feedFile[i])))
             \in DOMAIN chroma'.feed

\* C18: a missing or unparseable queue file, notified-set file or embed-state
\* file is treated as its empty default and the run still completes; a
\* malformed line in the feed or the scores file is skipped and every
\* well-formed line is still processed in the same run
C18_BestEffortReads ==
  [][AdjusterReadsOn /\ DetectorReadsOn /\ IndexerReadsOn]_vars

\* the adjuster has run on a scores file with malformed lines and without a
\* readable queue file: the snapshot holds both domains of the well-formed
\* lines and the queue is the remediation task of the run
C18_Witness ==
  /\ scoresFile = ScoresWithMalformed
  /\ lastRun.ran
  /\ DOMAIN healthFile = {D_treasury_bonds, D_general}
  /\ healthFile[D_treasury_bonds].n = 5
  /\ Len(queueFile) = 1
  /\ queueFile[1].label = RemediationLabel(D_general, healthFile[D_general])

----------------------------------------------------------------------------
(* Concurrent writers of the queue file: zeke-quality-weights.py main and
   zeke-financial-ingestion.py add_queue_task *)

\* the processes that rewrite the queue file: two adjuster runs and one
\* add_queue_task call of the ingestion
Adjusters == {"adjuster", "adjuster2"}

Writers == Adjusters \cup {"ingestion"}

\* a queue file that is a rewrite of the whole list merged with what is on disk
Rewrite_Merged(file, tasks) ==
  tasks \o SelectSeq(load_queue(file), LAMBDA t : ~HasLabel(tasks, t.label))

\* write_text(json.dumps(tasks)): the file is replaced by the list in memory
Rewrite(file, tasks) == tasks

\* the task add_queue_task appends
IngestTask(label, instrument) ==
  [id |-> "fin", priority |-> 6, instrument |-> instrument,
   label |-> label, source |-> "financial-ingestion", status |-> "pending"]

L_fedwatch ==
  <<"F","e","d","W","a","t","c","h"," ","s","h","i","f","t">>

\* the labels the ingestion queues: one new, one already in QueueMixed
IngestLabels == {L_fedwatch, QueueMixed[1].label}

\* main, steps 1 to 4 up to load_queue: the snapshot is written and the whole
\* queue is read into memory
AdjusterRead(p) ==
  /\ inFlight[p].pc = "idle"
  /\ \E domain_scores \in {load_scores(scoresFile)} :
       IF domain_scores.order = <<>>
         THEN /\ inFlight' = [inFlight EXCEPT ![p] = [pc |-> "returned"]]
              /\ UNCHANGED healthFile
         ELSE /\ healthFile' = compute_health(domain_scores)
              /\ inFlight' = [inFlight EXCEPT ![p] =
                   [pc |-> "loaded", tasks |-> load_queue(queueFile),
                    order |-> HealthOrder(domain_scores),
                    health |-> compute_health(domain_scores)]]
  /\ UNCHANGED <<scoresFile, queueFile, lastRun, appends>>

\* main, steps 4 to 6: the list in memory is adjusted and saved, the run
\* journalled
AdjusterWrite(p) ==
  /\ inFlight[p].pc = "loaded"
  /\ \E res \in {AdjustQueue(inFlight[p].tasks, inFlight[p].order,
                             inFlight[p].health)} :
       /\ queueFile' = Rewrite(queueFile, res.tasks)
       /\ lastRun' = JournalEntry(inFlight[p].health, res)
       /\ inFlight' = [inFlight EXCEPT ![p] =
            [pc |-> "done", tasks |-> res.tasks,
             added |-> res.remediation_added + res.audit_added]]
  /\ UNCHANGED <<scoresFile, healthFile, appends>>

\* add_queue_task up to the append: the whole queue is read; an unparseable
\* file raises and the call returns False, and so does a label already there
IngestRead ==
  /\ inFlight["ingestion"].pc = "idle"
  /\ \E label \in IngestLabels :
       inFlight' = [inFlight EXCEPT !["ingestion"] =
         IF queueFile = CorruptQueueFile
           THEN [pc |-> "returned", result |-> FALSE]
         ELSE IF HasLabel(load_queue(queueFile), label)
           THEN [pc |-> "returned", result |-> FALSE]
         ELSE [pc |-> "loaded",
               tasks |-> Append(load_queue(queueFile),
                                IngestTask(label, <<"T","L","T">>))]]
  /\ UNCHANGED weightsVars

\* add_queue_task, the write_text and the return
IngestWrite ==
  /\ inFlight["ingestion"].pc = "loaded"
  /\ queueFile' = Rewrite(queueFile, inFlight["ingestion"].tasks)
  /\ inFlight' = [inFlight EXCEPT !["ingestion"] =
       [pc |-> "done", tasks |-> inFlight["ingestion"].tasks,
        result |-> TRUE]]
  /\ UNCHANGED <<scoresFile, healthFile, lastRun, appends>>

WritersInit ==
  /\ scoresFile \in {ScoresWeakAndDeclining, ScoresTen, <<>>}
  /\ queueFile \in {QueueMixed, <<>>, NoQueueFile, CorruptQueueFile}
  /\ healthFile = <<>>
  /\ lastRun = NoRun
  /\ appends = 0
  /\ inFlight = [p \in Writers |-> [pc |-> "idle"]]
  /\ ScoreIdle /\ EmbedIdle /\ EngineIdle /\ QueryIdle /\ ChunkIdle
  /\ CallIdle /\ BoostIdle /\ WindowIdle

\* what neither the adjuster nor a queue writer touches
others == <<scoreVars, embedVars, engineVars, queryVars, chunkVars, callVars,
  boostVars, windowVars>>

WritersNext ==
  \/ \E p \in Adjusters : AdjusterRead(p) /\ UNCHANGED others
  \/ \E p \in Adjusters : AdjusterWrite(p) /\ UNCHANGED others
  \/ IngestRead /\ UNCHANGED others
  \/ IngestWrite /\ UNCHANGED others

SpecWriters == WritersInit /\ [][WritersNext]_vars

\* writer p saves its list in this step
Saves(p) == inFlight[p].pc = "loaded" /\ inFlight'[p].pc = "done"

\* the labels of the tasks of a queue
Labels(tasks) == {tasks[i].label : i \in 1..Len(tasks)}

\* the tasks on disk that the writer did not read: written by another writer
\* since
WrittenSince(p) ==
  {t \in {load_queue(queueFile)[i] : i \in 1..Len(load_queue(queueFile))} :
     ~HasLabel(inFlight[p].tasks, t.label)}

\* C19: the queue file has no mutual exclusion: a writer that read the whole
\* queue rewrites it in full from what it read, so a task another writer
\* wrote in between is no longer in the file unless the writer queued a task
\* of that label itself (last writer wins)
C19_LastWriterWins ==
  [][\A p \in Writers :
       Saves(p) =>
         /\ queueFile' = inFlight'[p].tasks
         /\ \A t \in WrittenSince(p) :
              t.label \notin Labels(inFlight'[p].tasks) =>
                ~HasLabel(queueFile', t.label)]_vars

\* an adjuster run queued its tasks and journalled them, the ingestion's
\* add_queue_task returned True afterwards, and the file holds the
\* ingestion's task and none of the adjuster's
C19_Witness ==
  /\ inFlight # <<>>
  /\ inFlight["adjuster"].pc = "done"
  /\ inFlight["adjuster"].added > 0
  /\ lastRun.ran
  /\ lastRun.actions.remediation_tasks + lastRun.actions.audit_tasks > 0
  /\ inFlight["ingestion"].pc = "done"
  /\ inFlight["ingestion"].result
  /\ HasLabel(queueFile, L_fedwatch)
  /\ \A i \in 1..Len(queueFile) : queueFile[i].source # "quality-weights"

----------------------------------------------------------------------------
(* Insight selection against the other entries of the feed *)

\* the entries of the feed but the one at position i
Others(entries, i) ==
  SubSeq(entries, 1, i - 1) \o SubSeq(entries, i + 1, Len(entries))

\* the entry at position i has at least 5 distinct words and shares at most
\* 0.6 of them with each of the up to 10 most recent other entries of its
\* topic
NovelAmongOthers(entries, i) ==
  LET words_new == WordSet(NoveltyText(entries[i]))
      last == LastK(SameTopic(Others(entries, i),
                              Get(entries[i], "topic", <<>>)), 10)
  IN  /\ Cardinality(words_new) >= 5
      /\ \A k \in 1..Len(last) :
           ~TooSimilar(words_new, WordSet(NoveltyText(last[k])))

\* the positions, among the last 15, of the recent entries that score 3.5 or
\* more, are not in the notified set and are novel among the others
SelectedAmongOthers(entries, cutoff, sent) ==
  {i \in Max2(1, Len(entries) - 14)..Len(entries) :
     /\ ~StrLess(Get(entries[i], "timestamp", <<>>), cutoff)
     /\ Scored(entries[i]) >= 3500
     /\ fhash(entries[i]) \notin sent
     /\ NovelAmongOthers(entries, i)}

\* the elements of a set of positions in increasing order
Ascending(S) ==
  [k \in 1..Cardinality(S) |->
     CHOOSE i \in S : Cardinality({j \in S : j < i}) = k - 1]

\* C20: in insight selection a recent entry is a candidate exactly when it
\* scores 3.5 or more, its hash is not in the notified set and it is novel
\* with respect to the other feed entries (at least 5 distinct words, overlap
\* of at most 0.6 with each of the up to 10 most recent other same-topic
\* entries); in particular the newest entry of a topic that meets the
\* conditions is a candidate
C20_CandidateWhenNovelAmongOthers ==
  [][(IsScorerRun /\ engineRun'.ran = "done") =>
       LET entries == ReadFeed(insightFeed)
           chosen == Ascending(SelectedAmongOthers(entries, isoformat(clock - 20),
                                                   LoadSent(sentFile)))
       IN  engineRun'.candidates =
             [k \in 1..Len(chosen) |->
                [fhash |-> fhash(entries[chosen[k]]),
                 score |-> Scored(entries[chosen[k]])]]]_vars

----------------------------------------------------------------------------
(* The notified set after a run that selected a best candidate *)

\* the hashes the notified file holds as text
FileHashes(file) == IF file.exists /\ file.valid THEN file.hashes ELSE {}

\* a run of main that got as far as the selection and found a candidate
SelectsBest ==
  IsScorerRun /\ engineRun'.ran = "done" /\ engineRun'.candidates # <<>>

\* C21 as stated: in every run that selects a best candidate, the hash of
\* that candidate is in the persisted notified set when the run ends, whether
\* or not a notification went out
C21_AsStated ==
  [][SelectsBest =>
       Best(engineRun'.candidates).fhash \in FileHashes(sentFile')]_vars

\* C21: a run records the hash of its best candidate exactly when it
\* delivered the notification: the persisted set is then the 500 kept of the
\* loaded set and the hash, which holds the hash whenever the loaded set has
\* fewer than 500; a run that selects a best candidate and delivers nothing
\* leaves the notified file as it was; and no run selects a finding whose
\* hash is in the notified file
C21_RecordedWhenDelivered ==
  [][SelectsBest =>
       LET h == Best(engineRun'.candidates).fhash
       IN  /\ engineRun'.delivered =>
                /\ FileHashes(sentFile') \in
                     KeepLast(FileHashes(sentFile) \cup {h}, SENT_KEEP)
                /\ Cardinality(FileHashes(sentFile)) < SENT_KEEP =>
                     FileHashes(sentFile') = FileHashes(sentFile) \cup {h}
           /\ ~engineRun'.delivered => sentFile' = sentFile
           /\ \A i \in 1..Len(engineRun'.candidates) :
                engineRun'.candidates[i].fhash \notin FileHashes(sentFile)]_vars

\* a run delivered a finding and recorded its hash, and the run after it,
\* with the finding still in the window, selected another candidate
C21_Witness ==
  /\ engineSteps.runs >= 2
  /\ Len(telegramChat) = 1
  /\ fhash(E_high) \in FileHashes(sentFile)
  /\ telegramChat[1].finding = HighText
  /\ engineRun.ran = "done"
  /\ engineRun.candidates # <<>>
  /\ ~engineRun.delivered
  /\ insightFeed = F_two
  /\ clock = 600

----------------------------------------------------------------------------
(* is_novel called on its own *)

\* findings of 0, 1, 4, 5 and 6 distinct words
W0 == <<>>

W1 == <<"y","i","e","l","d","s">>

W4 == <<"Y","i","e","l","d","s"," ","r","o","s","e"," ","a","g","a","i","n"," ","t","o","d","a","y">>

\* five words, one of them twice in another case
W5 == <<"y","i","e","l","d","s"," ","r","o","s","e"," ","r","o","s","e"," ","a","g","a","i","n"," ","t","o","d","a","y"," ","Y","I","E","L","D","S">>

W6 == <<"a","u","c","t","i","o","n"," ","d","e","m","a","n","d"," ","f","e","l","l"," ","s","h","a","r","p","l","y"," ","t","h","i","s"," ","w","e","e","k">>

NovelFindings == {W0, W1, W4, W5, W6}

\* the entries is_novel is called with: with a topic, with another topic,
\* without the topic key
NovelEntries ==
  {Entry(topic, f) : topic \in {TopicYields, TopicSleep}, f \in NovelFindings}
  \cup {Finding(f) : f \in NovelFindings}

\* the histories: none, one entry, two entries
NovelHistories ==
  {<<>>}
  \cup {<<e>> : e \in {Entry(TopicYields, W6), Entry(TopicSleep, W4), Finding(W6)}}
  \cup {<<Entry(TopicYields, W4), Entry(TopicYields, W6)>>,
        <<Finding(W1), Entry(TopicSleep, W5)>>}

NovelInit ==
  /\ callIn \in [fn : {"is_novel"}, entry : NovelEntries,
                 recent_entries : NovelHistories]
  /\ callOut = <<>>
  /\ NotCallIdle

\* is_novel(entry, recent_entries)
CallIsNovel ==
  /\ callOut = <<>>
  /\ callOut' = <<is_novel(callIn.entry, callIn.recent_entries)>>
  /\ UNCHANGED <<callIn, notCall>>

NovelNext == CallIsNovel

SpecNovel == NovelInit /\ [][NovelNext]_vars

\* C22: is_novel returns not-novel for every entry whose word set (first 150
\* characters of the finding, lowercased, split on whitespace) has fewer than
\* 5 distinct words, whatever the history it is compared with
C22_ShortIsNotNovel ==
  (callOut # <<>>
     /\ Cardinality(WordSet(NoveltyText(callIn.entry))) < 5)
    => callOut[1] = FALSE

----------------------------------------------------------------------------
(* score_entry on a finding without signals *)

\* the entry handed to score_entry has no depth, shallow, specificity,
\* citation or priority-topic signal
NoSignal(entry) ==
  LET finding == FindingOf(entry)
      fl == Lower(finding)
  IN  /\ Hits(DEPTH_SIGNALS, fl) = 0
      /\ Hits(SHALLOW_SIGNALS, fl) = 0
      /\ CountMatches(finding, 1) = 0
      /\ ~AnyIn(CITATION_SIGNALS, fl)
      /\ ~IsPriority(Get(entry, "topic", <<>>))

\* the words of the finding score_entry counts
Words(entry) == WordCount(FindingOf(entry))

\* C23 as stated: without signals the score is 2.0 if w < 20, 2.5 if
\* 20 <= w <= 40, 2.8 if w is above 40 and at most 200, and 2.2 if w > 200
C23_AsStated ==
  (scoreOut # <<>> /\ NoSignal(scoreEntry)) =>
    scoreOut[1] = (IF Words(scoreEntry) < 20 THEN 2000
                   ELSE IF Words(scoreEntry) <= 40 THEN 2500
                   ELSE IF Words(scoreEntry) <= 200 THEN 2800
                   ELSE 2200)

\* C23: for a finding with no depth, shallow, specificity, citation or
\* priority-topic signal, score_entry depends only on the word count w: 2.0
\* if w < 20, 2.8 if 40 < w < 120, 2.2 if w > 200, and exactly 2.5 otherwise
\* (20 <= w <= 40 and 120 <= w <= 200)
C23_LengthOnly ==
  (scoreOut # <<>> /\ NoSignal(scoreEntry)) =>
    scoreOut[1] = (IF Words(scoreEntry) < 20 THEN 2000
                   ELSE IF Words(scoreEntry) <= 40 THEN 2500
                   ELSE IF Words(scoreEntry) < 120 THEN 2800
                   ELSE IF Words(scoreEntry) <= 200 THEN 2500
                   ELSE 2200)

\* a finding of 120 words without signals scored 2.5
C23_Witness ==
  /\ scoreOut = <<2500>>
  /\ NoSignal(scoreEntry)
  /\ Words(scoreEntry) = 120

----------------------------------------------------------------------------
(* normalize_topic called on its own *)

\* the keys of the alias table
AliasKeys == {TOPIC_TO_DOMAIN[i][1] : i \in 1..Len(TOPIC_TO_DOMAIN)}

\* the domain the alias table gives key
DomainOf(key) ==
  TOPIC_TO_DOMAIN[CHOOSE i \in 1..Len(TOPIC_TO_DOMAIN) :
                    TOPIC_TO_DOMAIN[i][1] = key][2]

\* " weekly", what a topic that extends a key goes on with
Extension == <<" ","w","e","e","k","l","y">>

\* topics no key matches, by either rule
UnknownTopics ==
  {<<>>, <<"s","l","e","e","p">>, <<"S","l","e","e","p"," ">>,
   <<"t","r","e","a","s","u","r","y">>,
   <<"G","o","l","d"," ","m","i","n","e","r","s"," ","a","n","d"," ","r","o","y","a","l","t","i","e","s">>}

\* every key as it is, in capitals between blanks, and extended; the first
\* 15 characters of every long key; and topics no key matches
TopicInputs ==
  AliasKeys
  \cup {<<" ">> \o Upper(k) \o <<" ">> : k \in AliasKeys}
  \cup {k \o Extension : k \in AliasKeys}
  \cup {Prefix(k, 15) : k \in {a \in AliasKeys : Len(a) > 10}}
  \cup UnknownTopics

TopicInit ==
  /\ callIn \in [fn : {"normalize_topic"}, raw_topic : TopicInputs]
  /\ callOut = <<>>
  /\ NotCallIdle

\* normalize_topic(raw_topic)
CallNormalize ==
  /\ callOut = <<>>
  /\ callOut' = <<normalize_topic(callIn.raw_topic)>>
  /\ UNCHANGED <<callIn, notCall>>

TopicNext == CallNormalize

SpecTopic == TopicInit /\ [][TopicNext]_vars

\* the long keys whose first 15 characters the topic starts with
PrefixKeys(topic) ==
  {k \in AliasKeys : Len(k) > 10 /\ StartsWith(topic, Prefix(k, 15))}

\* the result of the three rules read on the topic `t`
ByRules(t, result) ==
  IF t \in AliasKeys THEN result = DomainOf(t)
  ELSE IF PrefixKeys(t) # {} THEN \E k \in PrefixKeys(t) : result = DomainOf(k)
  ELSE result = t

\* C24 as stated: the rules are applied to the raw topic, and a topic no
\* rule matches is returned unchanged
C24_AsStated ==
  callOut # <<>> =>
    /\ callOut[1] # "raised"
    /\ ByRules(callIn.raw_topic, callOut[1])

\* C24: on the topic lowercased and stripped of surrounding blanks,
\* normalize_topic returns the alias table's domain when the topic exactly
\* matches a key, before any prefix rule is tried; otherwise the domain of an
\* alias key longer than 10 characters whose first 15 characters are a prefix
\* of the topic; otherwise the lowercased, stripped topic as its own domain.
\* It never raises for an unrecognized topic string.
C24_ExactThenPrefixThenSelf ==
  callOut # <<>> =>
    /\ callOut[1] # "raised"
    /\ ByRules(Strip(Lower(callIn.raw_topic)), callOut[1])

\* the exact key "queue-research-tlt", whose first 15 characters also begin
\* an earlier key of another domain, was mapped to its own domain
C24_Witness ==
  /\ callOut = <<D_treasury_bonds>>
  /\ callIn.raw_topic \in AliasKeys
  /\ \E k \in PrefixKeys(callIn.raw_topic) :
       DomainOf(k) # D_treasury_bonds

----------------------------------------------------------------------------
(* Topics that extend an alias key *)

\* the long keys the topic begins with, the topic being none of the keys
WholeKeys(topic) ==
  IF topic \in AliasKeys THEN {}
  ELSE {k \in AliasKeys : Len(k) > 10 /\ StartsWith(topic, k)}

\* C29: when a topic is not an exact alias but begins with a whole alias key
\* that is longer than 10 characters, normalize_topic maps it to that key's
\* own canonical domain, whatever the order of the alias table (a topic that
\* extends "queue-research-tlt" maps to treasury-bonds)
C29_ExtendedKeyKeepsDomain ==
  callOut # <<>> =>
    \A k \in WholeKeys(Strip(Lower(callIn.raw_topic))) :
      callOut[1] = DomainOf(k)

----------------------------------------------------------------------------
(* zeke-rag-query.py: format_context_for_prompt *)

\* "\n".join(lines)
RECURSIVE JoinLines(_)
JoinLines(lines) ==
  IF lines = <<>> THEN <<>>
  ELSE IF Len(lines) = 1 THEN lines[1]
  ELSE lines[1] \o <<"\n">> \o JoinLines(Tail(lines))

\* the digits of a fraction given in thousandths, without trailing zeros
FracDigits(f) ==
  IF f % 100 = 0 THEN <<Digits[(f \div 100) + 1]>>
  ELSE IF f % 10 = 0
    THEN <<Digits[(f \div 100) + 1], Digits[((f \div 10) % 10) + 1]>>
  ELSE <<Digits[(f \div 100) + 1], Digits[((f \div 10) % 10) + 1],
         Digits[(f % 10) + 1]>>

\* str(x) of the float x given in thousandths: "0.75", "1.0", "-0.2"
FloatStr(x) ==
  LET a == IF x < 0 THEN -x ELSE x
  IN  (IF x < 0 THEN <<"-">> ELSE <<>>)
      \o DecStr(a \div 1000) \o <<".">> \o FracDigits(a % 1000)

\* f"... (relevance: {rel})" with rel = item.get("relevance", 0)
RelStr(item) ==
  IF "relevance" \in DOMAIN item THEN FloatStr(item.relevance) ELSE <<"0">>

\* the characters of the names of other collections
NameText == [notes |-> <<"n","o","t","e","s">>]

\* the label of a hit by its collection
source_label(item) ==
  LET meta == Get(item, "metadata", <<>>)
      Meta(key) == IF meta # <<>> /\ key \in DOMAIN meta THEN meta[key] ELSE <<>>
      col == Get(item, "collection", "")
  IN  IF col = "synthesis_outputs"
        THEN <<"[","P","r","i","o","r"," ","s","y","n","t","h","e","s","i","s",":"," ">> \o Meta("source") \o <<"]">>
      ELSE IF col = "feed_entries"
        THEN <<"[","F","e","e","d",":"," ">> \o Meta("topic") \o <<" ","@"," ">>
             \o Prefix(Meta("timestamp"), 10) \o <<"]">>
      ELSE IF col = "thesis_ledger"
        THEN <<"[","T","h","e","s","i","s",":"," ">> \o Meta("video_title") \o <<" ","|"," ">>
             \o Meta("instrument") \o <<" ">> \o Meta("bias") \o <<"]">>
      ELSE IF col = "" THEN <<"[", "]">>
      ELSE <<"[">> \o NameText[col] \o <<"]">>

\* entry = f"{source_label} (relevance: {rel})\n{text}"
EntryOf(item) ==
  source_label(item) \o <<" ","(","r","e","l","e","v","a","n","c","e",":"," ">> \o RelStr(item) \o <<")", "\n">> \o item.text

\* the loop over the hits that passes over a hit that does not fit and goes on
RECURSIVE HitLoop_SkipLarge(_, _, _, _)
HitLoop_SkipLarge(context, max_chars, chars_used, lines) ==
  IF context = <<>> THEN lines
  ELSE LET entry == EntryOf(Head(context))
       IN  IF chars_used + Len(entry) > max_chars
             THEN HitLoop_SkipLarge(Tail(context), max_chars, chars_used, lines)
             ELSE HitLoop_SkipLarge(Tail(context), max_chars,
                                    chars_used + Len(entry),
                                    lines \o <<entry, <<>>>>)

\* the loop over the hits: `lines` after it
RECURSIVE HitLoop(_, _, _, _)
HitLoop(context, max_chars, chars_used, lines) ==
  IF context = <<>> THEN lines
  ELSE LET entry == EntryOf(Head(context))
       IN  IF chars_used + Len(entry) > max_chars
             THEN lines
             ELSE HitLoop(Tail(context), max_chars, chars_used + Len(entry),
                          lines \o <<entry, <<>>>>)

Banner == <<"=","=","="," ","P","R","I","O","R"," ","Z","E","K","E"," ","C","O","N","T","E","X","T"," ","(","R","A","G"," ","r","e","t","r","i","e","v","a","l",")"," ","=","=","=">>

EndBanner == <<"=","=","="," ","E","N","D"," ","P","R","I","O","R"," ","C","O","N","T","E","X","T"," ","=","=","=">>

format_context_for_prompt(context_result, max_chars) ==
  IF Get(context_result, "context", <<>>) = <<>> THEN <<>>
  ELSE JoinLines(
         HitLoop(context_result.context, max_chars, 0,
                 <<Banner, <<"Q","u","e","r","y",":"," ">> \o context_result.query, <<>>>>)
         \o <<EndBanner>>)

----------------------------------------------------------------------------
(* format_context_for_prompt called on ranked hits *)

\* the query of every call
Q_gold == <<"g","o","l","d">>

Hit(col, meta, text, rel) ==
  [text |-> text, metadata |-> meta, relevance |-> rel, collection |-> col]

\* hits whose entries are 61, 45, 52 and 27 characters long, and a hit
\* without metadata, relevance and collection, of 21
H_syn == Hit("synthesis_outputs", [source |-> <<"w","e","e","k","l","y",".","m","d">>], <<"g","o","l","d"," ","c","y","c","l","e"," ","l","o","w">>, 750)

H_feed ==
  Hit("feed_entries", [topic |-> <<"t","l","t">>, timestamp |-> <<"2","0","2","6","-","0","1","-","0","5","T","1","0",":","0","0",":","0","0","Z">>], <<"o","i","l">>, 1000)

H_thesis ==
  Hit("thesis_ledger",
      [video_title |-> <<"G","o","l","d">>, instrument |-> <<"G","L","D">>, bias |-> <<"l","o","n","g">>], <<"u","s","d"," ","w","e","a","k">>, -200)

H_other == Hit("notes", [id |-> "n1"], <<>>, 5)

H_bare == [text |-> <<"b","t","c">>]

\* the ranked lists handed to the function
Contexts ==
  {<<>>, <<H_syn>>, <<H_bare>>, <<H_syn, H_feed>>, <<H_feed, H_syn>>,
   <<H_syn, H_feed, H_thesis>>, <<H_thesis, H_syn, H_feed>>,
   <<H_thesis, H_other, H_feed>>, <<H_feed, H_thesis, H_other, H_bare>>,
   <<H_other, H_bare, H_syn, H_feed, H_thesis>>}

\* the budgets: nothing fits, one hit fits, several fit, all fit
Budgets == {0, 20, 21, 44, 45, 60, 61, 97, 105, 106, 158, 3000}

FormatInit ==
  /\ callIn \in [fn : {"format_context_for_prompt"},
                 context_result :
                   {[query |-> Q_gold, context |-> c] : c \in Contexts},
                 max_chars : Budgets]
  /\ callOut = <<>>
  /\ NotCallIdle

\* format_context_for_prompt(context_result, max_chars)
CallFormat ==
  /\ callOut = <<>>
  /\ callOut' = <<format_context_for_prompt(callIn.context_result,
                                            callIn.max_chars)>>
  /\ UNCHANGED <<callIn, notCall>>

FormatNext == CallFormat

SpecFormat == FormatInit /\ [][FormatNext]_vars

\* the length of the entries of the first m hits together
EntryChars(context, m) ==
  SumSeq([i \in 1..m |-> Len(EntryOf(context[i]))])

\* the number of leading hits whose entries together fit the budget, the hit
\* after them being the first that would exceed it
Fitting(context, max_chars) ==
  CHOOSE m \in 0..Len(context) :
    /\ EntryChars(context, m) <= max_chars
    /\ m < Len(context) => EntryChars(context, m + 1) > max_chars

\* the block made of the first m hits, each entry whole and followed by an
\* empty line
Block(context_result, m) ==
  JoinLines(<<Banner, <<"Q","u","e","r","y",":"," ">> \o context_result.query, <<>>>>
            \o [i \in 1..(2 * m) |->
                  IF i % 2 = 1 THEN EntryOf(context_result.context[(i + 1) \div 2])
                  ELSE <<>>]
            \o <<EndBanner>>)

\* C25: format_context_for_prompt appends hits in ranked order, each one
\* whole (label prefix plus full text), and stops at the first hit whose
\* addition would make the appended characters exceed max_chars: no later hit
\* is included, no hit is split, and the appended entries total at most
\* max_chars characters
C25_GreedyWholeHits ==
  (callOut # <<>> /\ callIn.context_result.context # <<>>) =>
    LET context == callIn.context_result.context
        m == Fitting(context, callIn.max_chars)
    IN  /\ callOut[1] = Block(callIn.context_result, m)
        /\ EntryChars(context, m) <= callIn.max_chars

\* the first hit did not fit while the second alone would have: the block
\* holds no hit
C25_Witness ==
  /\ callOut # <<>>
  /\ Len(callIn.context_result.context) >= 2
  /\ Len(EntryOf(callIn.context_result.context[1])) > callIn.max_chars
  /\ Len(EntryOf(callIn.context_result.context[2])) <= callIn.max_chars
  /\ callOut[1] = Block(callIn.context_result, 0)

----------------------------------------------------------------------------
(* Remediation and audit tasks over two runs *)

\* the tasks a run appended
AddedLabels ==
  {queueFile'[i].label : i \in (Len(queueFile) + 1)..Len(queueFile')}

\* the domain is in the snapshot of the run before and in the snapshot of
\* this run, WEAK in both, and the task of the run before is queued
StaysWeak(d) ==
  /\ d \in DOMAIN healthFile
  /\ d \in DOMAIN healthFile'
  /\ healthFile[d].tier = "WEAK"
  /\ healthFile'[d].tier = "WEAK"
  /\ HasLabel(queueFile, RemediationLabel(d, healthFile[d]))

\* the same for a domain that is OK and trending down in both snapshots
StaysDeclining(d) ==
  /\ d \in DOMAIN healthFile
  /\ d \in DOMAIN healthFile'
  /\ healthFile[d].tier = "OK" /\ healthFile[d].trend = "down"
  /\ healthFile'[d].tier = "OK" /\ healthFile'[d].trend = "down"
  /\ HasLabel(queueFile, AuditLabel(d, healthFile[d]))

\* the task of that label is where it was, as it was
Untouched(label) ==
  \A i \in 1..Len(queueFile) :
    queueFile[i].label = label =>
      SameButPriority(queueFile[i], queueFile'[i])

\* C26: the remediation and audit labels embed the live averages, so a domain
\* that stays WEAK (or stays OK with trend down) over two adjuster runs with
\* a different two-decimal average gets a second task in the second run, the
\* existing one being left as it is; when the averages in the label are
\* unchanged, no second task is added
C26_SecondTaskOnNewAverage ==
  [][(RunWeights /\ KeptLines(scoresFile) # <<>>) =>
       /\ \A d \in {x \in DOMAIN healthFile : StaysWeak(x)} :
            LET old == RemediationLabel(d, healthFile[d])
                new == RemediationLabel(d, healthFile'[d])
            IN  /\ Untouched(old)
                /\ healthFile'[d].avg = healthFile[d].avg =>
                     new = old /\ new \notin AddedLabels
                /\ (healthFile'[d].avg # healthFile[d].avg
                      /\ ~HasLabel(queueFile, new)) =>
                     new # old /\ new \in AddedLabels
       /\ \A d \in {x \in DOMAIN healthFile : StaysDeclining(x)} :
            LET old == AuditLabel(d, healthFile[d])
                new == AuditLabel(d, healthFile'[d])
                same == /\ healthFile'[d].avg = healthFile[d].avg
                        /\ healthFile'[d].recent_avg = healthFile[d].recent_avg
            IN  /\ Untouched(old)
                /\ same => new = old /\ new \notin AddedLabels
                /\ (~same /\ ~HasLabel(queueFile, new)) =>
                     new # old /\ new \in AddedLabels]_vars

\* two runs found the same domain WEAK at different averages: the queue holds
\* two remediation tasks of that domain, and the last run added one
C26_Witness ==
  /\ lastRun.ran
  /\ lastRun.actions.remediation_tasks = 1
  /\ \E d \in DOMAIN healthFile : \E i, j \in 1..Len(queueFile) :
       /\ i < j
       /\ queueFile[i].source = "quality-weights"
       /\ queueFile[j].source = "quality-weights"
       /\ queueFile[i].priority = 7 /\ queueFile[j].priority = 7
       /\ queueFile[i].instrument = queueFile[j].instrument
       /\ queueFile[i].label # queueFile[j].label
       /\ queueFile[j].label = RemediationLabel(d, healthFile[d])

----------------------------------------------------------------------------
(* Repeated adjuster runs over unchanged scores *)

MaxBoostRuns == 6

\* five treasury-bonds scores of 4.5: the domain is STRONG
ScoresStrongRates == Repeat(Line(T_treasury, 45), 5)

StartPriorities == {1, 5, 8, 9, 10}

\* QueueMixed with the priorities of its first two tasks set
StartQueue(p, q) ==
  [QueueMixed EXCEPT ![1].priority = p, ![2].priority = q]

BoostsInit ==
  /\ scoresFile \in {ScoresExample, ScoresTen, ScoresStrongRates,
                     ScoresWeakAndDeclining}
  /\ \E p, q \in StartPriorities : queueFile = StartQueue(p, q)
  /\ healthFile = <<>>
  /\ lastRun = NoRun
  /\ appends = 0
  /\ boostRuns = 0
  /\ boostStart = queueFile
  /\ ScoreIdle /\ EmbedIdle /\ EngineIdle /\ QueryIdle /\ ChunkIdle
  /\ WritersIdle /\ CallIdle /\ WindowIdle

\* one more run of the adjuster; nothing else writes the scores or the queue
BoostRun ==
  /\ boostRuns < MaxBoostRuns
  /\ AdjusterRun
  /\ boostRuns' = boostRuns + 1
  /\ UNCHANGED <<boostStart, scoreVars, embedVars, engineVars, queryVars,
                 chunkVars, writersVars, callVars, windowVars>>

BoostsNext == BoostRun

SpecBoosts == BoostsInit /\ [][BoostsNext]_vars

\* after k runs a task of a STRONG domain that started at p is at min(p + k, 10)
Accumulated ==
  boostRuns >= 1 =>
    \A i \in 1..Len(boostStart) :
      InStrongDomain(boostStart[i], healthFile) =>
        queueFile[i].priority = Min2(boostStart[i].priority + boostRuns, 10)

\* one run moves a priority by one step at most, and by one step exactly for
\* a pending task of a STRONG domain below 10
OnceARun ==
  BoostRun =>
    \A i \in 1..Len(queueFile) :
      /\ queueFile'[i].priority - queueFile[i].priority \in {0, 1}
      /\ (InStrongDomain(queueFile[i], healthFile')
            /\ queueFile[i].priority < 10) =>
           queueFile'[i].priority = queueFile[i].priority + 1

\* C28: priority boosts accumulate across runs: with unchanged scores each
\* further adjuster run raises the priority of every pending task mapped to a
\* STRONG domain by 1 again, so after k runs a task that started at priority
\* p has priority min(p + k, 10), while within one run a task is boosted at
\* most once
C28_BoostsAccumulate == [](Accumulated) /\ [][OnceARun]_vars

\* after three runs a task of a STRONG domain that started at 5 is at 8 and
\* another that started at 9 is at 10
C28_Witness ==
  /\ boostRuns = 3
  /\ \E i, j \in 1..Len(boostStart) :
       /\ InStrongDomain(boostStart[i], healthFile)
       /\ InStrongDomain(boostStart[j], healthFile)
       /\ boostStart[i].priority = 5 /\ queueFile[i].priority = 8
       /\ boostStart[j].priority = 9 /\ queueFile[j].priority = 10

----------------------------------------------------------------------------
(* The persisted hashes and the stored records *)

\* the ids of the chunks of the synthesis files whose content hash is h
SynthesisUnits(h) ==
  UNION {Bind(Strip(synthesisFiles[k].text), LAMBDA text :
           IF Len(text) >= 100 /\ content_hash(text) = h
             THEN {P_synthesis \o SYNTHESIS_PATHS[k] \o <<"_">> \o h \o <<"_">>
                     \o DecStr(i) : i \in 0..(Len(SynthesisChunks(text)) - 1)}
             ELSE {}) :
         k \in {j \in 1..Len(SYNTHESIS_PATHS) : synthesisFiles[j].exists}}

\* a feed entry of at least 50 characters has the content hash h
FeedUnit(h) ==
  \E i \in 1..Len(feedFile) :
    /\ ~Malformed(feedFile[i])
    /\ Len(FeedText(feedFile[i])) >= 50
    /\ content_hash(FeedText(feedFile[i])) = h

\* a ledger entry of at least 30 characters has the content hash h
ThesisUnit(h) ==
  \E i \in 1..Len(thesisFile) :
    /\ Len(ThesisText(thesisFile[i])) >= 30
    /\ content_hash(ThesisText(thesisFile[i])) = h

SynthesisStored ==
  \A h \in PersistedHashes(stateFile) :
    SynthesisUnits(h) \subseteq DOMAIN chroma.synthesis

FeedStored ==
  \A h \in PersistedHashes(stateFile) :
    FeedUnit(h) => (P_feed \o h) \in DOMAIN chroma.feed

ThesisStored ==
  \A h \in PersistedHashes(stateFile) :
    ThesisUnit(h) => (P_thesis \o h) \in DOMAIN chroma.thesis

\* C27: after any sequence of indexer runs every content hash in the persisted
\* state stands for content that was stored: each unit with that hash (every
\* chunk of a synthesis file, a feed entry, a ledger entry) has a record in its
\* own collection
C27_HashMeansStored == SynthesisStored /\ FeedStored /\ ThesisStored

----------------------------------------------------------------------------
(* chunk_text, one pass of its loop at a time *)

\* one pass of the while loop from `start`: the chunk it appends and the
\* next value of start
Pass_KeepsStart(text, chunk_size, overlap, start) ==
  [chunk |-> Strip(Slice(text, start, start + chunk_size)),
   start |-> IF start + chunk_size < Len(text) THEN start
             ELSE start + chunk_size - overlap]

Pass(text, chunk_size, overlap, start) ==
  Bind(Slice(text, start, start + chunk_size), LAMBDA chunk0 :
    Bind(RFind(chunk0, <<".", " ">>), LAMBDA last_period :
      LET end0 == start + chunk_size
          cut == end0 < Len(text) /\ 10 * last_period > 6 * chunk_size
      IN  IF cut
            THEN [chunk |-> Strip(Slice(chunk0, 0, last_period + 1)),
                  start |-> start + last_period + 1 - overlap]
            ELSE [chunk |-> Strip(chunk0), start |-> end0 - overlap]))

\* the lengths of the texts handed to chunk_text
TextLengths == {0, 40, 1000, 1001, 1150, 1851, TextLen}

WindowInputs ==
  {SubSeq(t, 1, n) : t \in ChunkInputs, n \in TextLengths}

WindowsInit ==
  /\ chunkIn \in WindowInputs
  /\ chunkOut = <<>>
  /\ winPc = "call"
  /\ winStart = 0
  /\ winChunks = <<>>
  /\ winStarts = <<>>
  /\ WeightsIdle /\ ScoreIdle /\ EmbedIdle /\ EngineIdle /\ QueryIdle
  /\ WritersIdle /\ CallIdle /\ BoostIdle

\* what a step of chunk_text leaves alone
windowFrame ==
  <<chunkIn, weightsVars, scoreVars, embedVars, engineVars, queryVars,
    writersVars, callVars, boostVars>>

\* `if len(text) <= chunk_size: return [text]`, else chunks = [], start = 0
WinEnter ==
  /\ winPc = "call"
  /\ IF Len(chunkIn) <= 1000
       THEN /\ chunkOut' = <<<<chunkIn>>>>
            /\ winPc' = "done"
       ELSE /\ winPc' = "loop"
            /\ UNCHANGED chunkOut
  /\ UNCHANGED <<winStart, winChunks, winStarts, windowFrame>>

\* one pass of `while start < len(text)`
WinPass ==
  /\ winPc = "loop"
  /\ winStart < Len(chunkIn)
  /\ \E p \in {Pass(chunkIn, 1000, 150, winStart)} :
       /\ winChunks' = Append(winChunks, p.chunk)
       /\ winStart' = p.start
  /\ winStarts' = Append(winStarts, winStart)
  /\ UNCHANGED <<winPc, chunkOut, windowFrame>>

\* the loop is left: `return [c for c in chunks if len(c) > 50]`
WinReturn ==
  /\ winPc = "loop"
  /\ ~(winStart < Len(chunkIn))
  /\ chunkOut' = <<LongerThan(winChunks, 50)>>
  /\ winPc' = "done"
  /\ UNCHANGED <<winStart, winChunks, winStarts, windowFrame>>

WindowsNext == WinEnter \/ WinPass \/ WinReturn

\* a call that was made runs on: the interpreter executes the next statement
SpecWindows == WindowsInit /\ [][WindowsNext]_vars /\ WF_vars(WindowsNext)

\* piece is text[a:b] for some a <= b
PieceOf(piece, text) ==
  \/ piece = <<>>
  \/ \E a \in 0..(Len(text) - Len(piece)) :
       \A i \in 1..Len(piece) : text[a + i] = piece[i]

\* each window starts strictly after the one before it
StartsAscend ==
  \A i \in 1..(Len(winStarts) - 1) : winStarts[i] < winStarts[i + 1]

\* the loop is left exactly when start has reached the end of the text
LeftAtEnd ==
  /\ WinReturn => winStart >= Len(chunkIn)
  /\ WinPass => winStart < Len(chunkIn) /\ winStart' > winStart

\* what the call returned: pieces of the input of at most 1000 characters,
\* the same list the function computed in one go returns
Returned ==
  winPc = "done" =>
    /\ chunkOut = <<chunk_text(chunkIn, 1000, 150)>>
    /\ \A i \in 1..Len(chunkOut[1]) :
         /\ Len(chunkOut[1][i]) <= 1000
         /\ PieceOf(chunkOut[1][i], chunkIn)

\* C30: chunk_text terminates for every input text with the default size
\* 1000 and overlap 150: each window starts strictly after the previous
\* window's start, the loop ends once the start reaches the end of the text,
\* and every returned chunk is a contiguous piece of the input of at most
\* 1000 characters
C30_Terminates ==
  /\ <>(winPc = "done")
  /\ [](StartsAscend /\ Returned)
  /\ [][LeftAtEnd]_vars

\* a call over a text of 2600 characters returned after four windows, the
\* second of them cut at a sentence end
C30_Witness ==
  /\ winPc = "done"
  /\ Len(chunkIn) = TextLen
  /\ Len(winStarts) = 4
  /\ winStarts[2] = 850
  /\ winStarts[3] < 1700
  /\ winStart >= Len(chunkIn)

====
